---- MODULE Spec2Model ----
(***************************************************************************)
(* A model of the barpi Barrier/Synergy client: the packet codec and the   *)
(* DCLP clipboard reassembler (barrier-client), the session loop           *)
(* (barrier-client/src/client.rs), the HID synthesizer (synergy-hid), the  *)
(* gadget actuator (barpi/src/client.rs) and the supervisor of barpi       *)
(* (barpi/src/main.rs).                                                    *)
(***************************************************************************)
EXTENDS Integers, Sequences, FiniteSets, TLC

VARIABLES
    pc,               \* position of the session task inside start()
    rx,               \* bytes the server has sent that the client has not consumed
    rxClosed,         \* the server has closed its side of the socket
    tx,               \* every byte the client has written to the socket, in order
    sent,             \* history: the frames the server has written on this connection
    clipboard_stage,  \* ClipboardStage owned by start()
    packet,           \* result of the last PacketStream::read
    log,              \* history: for the handshake and each completed read, the bytes
                      \* it took from the socket, the stage it found and how it ended
    calls,            \* history: Actuator trait methods start() has invoked
    device_name,      \* the screen name given to start()
    result,           \* what start() has returned ("none" while it runs)
    width, height,    \* screen size held by the actuator and the synthesizer
    flip_mouse_wheel, \* SynergyHid.flip_mouse_wheel
    hid,              \* SynergyHid: x, y, server_buttons and the three reports
    act,              \* BarpiActuator.x / .y
    sink,             \* the last report written to each of the three gadget files
    token,            \* CancellationToken: TRUE once cancel() has been called
    hist,             \* history kept for the properties (the last call and its inputs)
    sup               \* main(): the seconds spent in the reconnect sleep, the time the
                      \* socket has been silent, the number of signals received

vars == <<pc, rx, rxClosed, tx, sent, clipboard_stage, packet, log, calls,
          device_name, result, width, height, flip_mouse_wheel, hid, act, sink, token, hist, sup>>

----------------------------------------------------------------------------
(* Bytes and big-endian integers (tokio AsyncReadExt / AsyncWriteExt).      *)

Min(a, b) == IF a < b THEN a ELSE b

\* the element of a one-element set
The(S) == CHOOSE x \in S : TRUE

SubSeqFrom(s, i) == SubSeq(s, i, Len(s))

Take(s, n) == SubSeq(s, 1, Min(n, Len(s)))

Drop(s, n) == SubSeq(s, Min(n, Len(s)) + 1, Len(s))

\* u16::to_be_bytes
U16BE(n) == <<(n \div 256) % 256, n % 256>>

\* u32::to_be_bytes
U32BE(n) == <<(n \div 16777216) % 256, (n \div 65536) % 256, (n \div 256) % 256, n % 256>>

\* x as u16 for an i32 x (two's complement truncation)
AsU16(x) == x % 65536

----------------------------------------------------------------------------
(* IEEE-754 binary32 arithmetic of scale_position:                          *)
(*   ((x as f32) * (0x7fff as f32 / (width as f32))).ceil() as u16          *)
(* A positive f32 is kept as a pair [m, s] standing for m * 2^(-s) with a   *)
(* 24-bit significand m; every rounding is round-to-nearest-even.           *)

RECURSIVE BitLen(_)
BitLen(n) == IF n = 0 THEN 0 ELSE 1 + BitLen(n \div 2)

RECURSIVE DivBits(_, _, _, _)
\* long division: extend the quotient m (remainder r, divisor w) bit by bit until it
\* has 24 significant bits, then round on the remainder
DivBits(m, r, w, s) ==
    IF m < 8388608
    THEN DivBits(2 * m + (IF 2 * r >= w THEN 1 ELSE 0),
                 IF 2 * r >= w THEN 2 * r - w ELSE 2 * r, w, s + 1)
    ELSE [m |-> IF 2 * r > w \/ (2 * r = w /\ m % 2 = 1) THEN m + 1 ELSE m, s |-> s]

\* (n as f32) / (w as f32) for integers n >= 0 and w > 0 below 2^24
F32Div(n, w) == DivBits(n \div w, n % w, w, 0)

\* f.ceil() as u16 for the f32 f = m * 2^(-e), m >= 0: the cast saturates at u16::MAX
CeilSatU16(m, e) ==
    IF m = 0 THEN 0
    ELSE IF e <= 0
         THEN IF -e >= 16 \/ m >= 65536 THEN 65535 ELSE Min(m * (2 ^ (-e)), 65535)
         ELSE IF e >= 30 THEN 1   \* 0 < f < 1 (m is below 2^25)
         ELSE Min((m + (2 ^ e) - 1) \div (2 ^ e), 65535)

\* ((x as f32) * ratio).ceil() as u16: the product is rounded to 24 bits, ceil is
\* exact, and the float-to-int cast saturates at u16::MAX
F32MulCeilU16(x, ratio) ==
    LET Mh == ratio.m \div 4096
        Ml == ratio.m % 4096
        t  == x * Ml
        hi == x * Mh + t \div 4096
        lo == t % 4096
        len == IF hi = 0 THEN BitLen(lo) ELSE BitLen(hi) + 12
        k  == IF len > 24 THEN len - 24 ELSE 0
        half == IF k = 0 THEN 0 ELSE 2 ^ (k - 1)
        Q  == IF k = 0 THEN hi * 4096 + lo
              ELSE IF k <= 12 THEN hi * (2 ^ (12 - k)) + lo \div (2 ^ k)
              ELSE hi \div (2 ^ (k - 12))
        R  == IF k = 0 THEN 0
              ELSE IF k <= 12 THEN lo % (2 ^ k)
              ELSE (hi % (2 ^ (k - 12))) * 4096 + lo
        Qr == IF R > half \/ (R = half /\ k > 0 /\ Q % 2 = 1) THEN Q + 1 ELSE Q
        e  == ratio.s - k
    IN  CeilSatU16(Qr, e)

\* one coordinate of SynergyHid::scale_position. A zero screen dimension divides by
\* zero: 0x7fff / 0.0 is +inf, x * inf is inf (NaN for x = 0), and the cast gives
\* u16::MAX (0 for NaN)
ScaleCoordFullRange(x, w) ==
    IF w = 0 THEN (IF x = 0 THEN 0 ELSE 65535)
    ELSE F32MulCeilU16(x, F32Div(65535, w))

ScaleCoord(x, w) ==
    IF w = 0 THEN (IF x = 0 THEN 0 ELSE 65535)
    ELSE F32MulCeilU16(x, F32Div(32767, w))

\* one coordinate of BarpiActuator::scale_position:
\*   ((x as f32) * (self.width as f32) / 0x7fff as f32).ceil() as u16
\* the product x * w (below 2^32) is rounded to 24 bits, then divided by 32767.0
ActScaleCoord(x, w) ==
    LET wh == w \div 256
        wl == w % 256
        t  == x * wl
        hi == x * wh + t \div 256
        lo == t % 256
        len == IF hi = 0 THEN BitLen(lo) ELSE BitLen(hi) + 8
        k  == IF len > 24 THEN len - 24 ELSE 0
        half == IF k = 0 THEN 0 ELSE 2 ^ (k - 1)
        Q  == IF k = 0 THEN hi * 256 + lo ELSE hi * (2 ^ (8 - k)) + lo \div (2 ^ k)
        R  == IF k = 0 THEN 0 ELSE lo % (2 ^ k)
        Qr == IF R > half \/ (R = half /\ k > 0 /\ Q % 2 = 1) THEN Q + 1 ELSE Q
        d  == DivBits(Qr \div 32767, Qr % 32767, 32767, 0)
    IN  IF Qr = 0 THEN 0 ELSE CeilSatU16(d.m, d.s - k)

----------------------------------------------------------------------------
(* synergy-hid: key codes and the three report buffers.                     *)

\* SynergyHid.server_buttons is [u16; 512]
NumServerButtons == 512

\* HID usages of the key table
HID_KEY_A == 4
HID_KEY_CONTROL_LEFT == 224
HID_KEY_SHIFT_LEFT == 225
HID_KEY_GUI_RIGHT == 231
HID_USAGE_CONSUMER_MUTE == 226

\* Synergy key ids
kKeyShift_L == 61409
kKeyControl_L == 61411
kKeyAudioMute == 57517

NoKey == [kind |-> "None", code |-> 0]

\* keycodes::synergy_to_hid on the ids the model uses: letters 'A'..'G' and
\* 'a'..'g', two modifiers, one consumer key; every other id is unmapped
synergy_to_hid(key) ==
    IF key \in 65..71 THEN [kind |-> "Key", code |-> HID_KEY_A + (key - 65)]
    ELSE IF key \in 97..103 THEN [kind |-> "Key", code |-> HID_KEY_A + (key - 97)]
    ELSE IF key = kKeyShift_L THEN [kind |-> "Key", code |-> HID_KEY_SHIFT_LEFT]
    ELSE IF key = kKeyControl_L THEN [kind |-> "Key", code |-> HID_KEY_CONTROL_LEFT]
    ELSE IF key = kKeyAudioMute THEN [kind |-> "Consumer", code |-> HID_USAGE_CONSUMER_MUTE]
    ELSE NoKey

\* keycodes::synergy_mouse_button: the bit of the buttons byte, 0 when ignored
synergy_mouse_button(button) ==
    IF button = 1 THEN 1 ELSE IF button = 2 THEN 2 ELSE IF button = 3 THEN 4 ELSE 0

IsModifier(k) == k \in HID_KEY_CONTROL_LEFT..HID_KEY_GUI_RIGHT

ModifierBit(k) == 2 ^ (k - HID_KEY_CONTROL_LEFT)

HasBit(byte, bit) == (byte \div bit) % 2 = 1

SetBit(byte, bit) == IF bit = 0 \/ HasBit(byte, bit) THEN byte ELSE byte + bit

ClearBit(byte, bit) == IF bit # 0 /\ HasBit(byte, bit) THEN byte - bit ELSE byte

NoKeys == <<0, 0, 0, 0, 0, 0>>

RECURSIVE Without(_, _)
Without(s, k) ==
    IF s = <<>> THEN <<>>
    ELSE IF Head(s) = k \/ Head(s) = 0 THEN Without(Tail(s), k)
    ELSE <<Head(s)>> \o Without(Tail(s), k)

PadKeys(s) == [i \in 1..6 |-> IF i <= Len(s) THEN s[i] ELSE 0]

KeyboardReportDefault == [modifier |-> 0, keycode |-> NoKeys]

\* KeyboardReport::press: a modifier sets its bit, any other key goes into the first
\* free slot and is dropped when all six are taken
KeyboardPress(r, k) ==
    IF IsModifier(k) THEN [r EXCEPT !.modifier = SetBit(@, ModifierBit(k))]
    ELSE IF \E i \in 1..6 : r.keycode[i] = 0
         THEN LET i == CHOOSE j \in 1..6 : r.keycode[j] = 0 /\ \A l \in 1..(j - 1) : r.keycode[l] # 0
              IN  [r EXCEPT !.keycode[i] = k]
         ELSE r

\* KeyboardReport::release: a modifier clears its bit, any other key is removed from
\* the slot list, which is compacted
KeyboardRelease(r, k) ==
    IF IsModifier(k) THEN [r EXCEPT !.modifier = ClearBit(@, ModifierBit(k))]
    ELSE [r EXCEPT !.keycode = PadKeys(Without(r.keycode, k))]

\* the 8-byte boot keyboard report: modifier, reserved, key1..key6
KeyboardBytes(r) == <<r.modifier, 0>> \o r.keycode

MouseReportDefault == [buttons |-> 0, x |-> 0, y |-> 0, wheel |-> 0, pan |-> 0]

\* the 7-byte absolute mouse report: buttons, x lo/hi, y lo/hi, wheel, pan
MouseBytes(r) ==
    <<r.buttons, r.x % 256, r.x \div 256, r.y % 256, r.y \div 256, r.wheel % 256, r.pan % 256>>

\* the 2-byte consumer report as test_key asserts it: usage 0x00E2 gives [0x00, 0xE2]
ConsumerBytes(code) == <<code \div 256, code % 256>>

\* v as i8 for an i16 v: the low byte, read as two's complement
AsI8(v) == LET b == v % 256 IN IF b >= 128 THEN b - 256 ELSE b

----------------------------------------------------------------------------
(* synergy-hid: SynergyHid. Every operation returns the new state, the      *)
(* report it hands back (its kind and bytes), and whether it panicked.      *)

\* button slots the model's key events use
MaxSlot == 1

Slots == 0..MaxSlot

\* SynergyHid::new
SynergyHidNew ==
    [x |-> 0, y |-> 0,
     server_buttons |-> [b \in Slots |-> 0],
     keyboard_report |-> KeyboardReportDefault,
     mouse_report |-> MouseReportDefault,
     consumer_report |-> 0]

Ret(h, kind, bytes) == [hid |-> h, kind |-> kind, bytes |-> bytes, panic |-> FALSE]

Panic(h) == [hid |-> h, kind |-> "None", bytes |-> <<>>, panic |-> TRUE]

\* a key_down whose key takes the place of the oldest one when all six slots are taken
HidPressEvicts(h, code) ==
    IF code.kind = "None"
    THEN Ret([h EXCEPT !.keyboard_report = KeyboardReportDefault],
             "Keyboard", KeyboardBytes(KeyboardReportDefault))
    ELSE IF code.kind = "Key"
    THEN LET full == ~IsModifier(code.code) /\ \A i \in 1..6 : h.keyboard_report.keycode[i] # 0
             r == IF full
                  THEN [h.keyboard_report EXCEPT
                          !.keycode = Tail(@) \o <<code.code>>]
                  ELSE KeyboardPress(h.keyboard_report, code.code)
         IN  Ret([h EXCEPT !.keyboard_report = r], "Keyboard", KeyboardBytes(r))
    ELSE Ret([h EXCEPT !.consumer_report = code.code], "Consumer", ConsumerBytes(code.code))

\* the match on the KeyCode in key_down
HidPress(h, code) ==
    IF code.kind = "None"
    THEN Ret([h EXCEPT !.keyboard_report = KeyboardReportDefault],
             "Keyboard", KeyboardBytes(KeyboardReportDefault))
    ELSE IF code.kind = "Key"
    THEN LET r == KeyboardPress(h.keyboard_report, code.code)
         IN  Ret([h EXCEPT !.keyboard_report = r], "Keyboard", KeyboardBytes(r))
    ELSE Ret([h EXCEPT !.consumer_report = code.code], "Consumer", ConsumerBytes(code.code))

\* a key_up whose match takes the KeyCode::None arm for every key
HidReleaseClearsAll(h, code) ==
    Ret([h EXCEPT !.keyboard_report = KeyboardReportDefault],
        "Keyboard", KeyboardBytes(KeyboardReportDefault))

\* the match on the KeyCode in key_up
HidRelease(h, code) ==
    IF code.kind = "None"
    THEN Ret([h EXCEPT !.keyboard_report = KeyboardReportDefault],
             "Keyboard", KeyboardBytes(KeyboardReportDefault))
    ELSE IF code.kind = "Key"
    THEN LET r == KeyboardRelease(h.keyboard_report, code.code)
         IN  Ret([h EXCEPT !.keyboard_report = r], "Keyboard", KeyboardBytes(r))
    ELSE Ret([h EXCEPT !.consumer_report = 0], "Consumer", ConsumerBytes(0))

\* SynergyHid::key_down: indexing server_buttons past its end panics
key_down(h, key, mask, button) ==
    IF button >= NumServerButtons THEN Panic(h)
    ELSE HidPress([h EXCEPT !.server_buttons[button] = key], synergy_to_hid(key))

\* a key_up that releases the key the server names
key_up_by_sent_id(h, key, mask, button) ==
    IF button >= NumServerButtons THEN Panic(h)
    ELSE HidRelease([h EXCEPT !.server_buttons[button] = 0], synergy_to_hid(key))

\* a key_up that leaves the report as it is when the slot holds no key-down
key_up_stray_keeps(h, key, mask, button) ==
    IF button >= NumServerButtons THEN Panic(h)
    ELSE LET prev == h.server_buttons[button]
         IN  IF prev # 0
             THEN HidRelease([h EXCEPT !.server_buttons[button] = 0], synergy_to_hid(prev))
             ELSE Ret(h, "Keyboard", KeyboardBytes(h.keyboard_report))

\* SynergyHid::key_up: the key released is the one recorded for the slot
key_up(h, key, mask, button) ==
    IF button >= NumServerButtons THEN Panic(h)
    ELSE LET prev == h.server_buttons[button]
         IN  IF prev # 0
             THEN HidRelease([h EXCEPT !.server_buttons[button] = 0], synergy_to_hid(prev))
             ELSE HidRelease(h, NoKey)

\* SynergyHid::scale_position
scale_position(w, ht, x, y) == <<ScaleCoord(x, w), ScaleCoord(y, ht)>>

\* SynergyHid::set_cursor_position
hid_set_cursor_position(h, w, ht, x, y) ==
    LET p == scale_position(w, ht, x, y)
        r == [h.mouse_report EXCEPT !.x = p[1], !.y = p[2]]
    IN  Ret([h EXCEPT !.x = p[1], !.y = p[2], !.mouse_report = r], "Mouse", MouseBytes(r))

\* SynergyHid::move_cursor
hid_move_cursor(h, w, ht, dx, dy) ==
    hid_set_cursor_position(h, w, ht, AsU16(h.x + dx), AsU16(h.y + dy))

\* SynergyHid::mouse_down
hid_mouse_down(h, button) ==
    LET r == [h.mouse_report EXCEPT !.buttons = SetBit(@, synergy_mouse_button(button))]
    IN  Ret([h EXCEPT !.mouse_report = r], "Mouse", MouseBytes(r))

\* a mouse_up that releases every button
hid_mouse_up_all(h, button) ==
    LET r == [h.mouse_report EXCEPT !.buttons = 0]
    IN  Ret([h EXCEPT !.mouse_report = r], "Mouse", MouseBytes(r))

\* SynergyHid::mouse_up
hid_mouse_up(h, button) ==
    LET r == [h.mouse_report EXCEPT !.buttons = ClearBit(@, synergy_mouse_button(button))]
    IN  Ret([h EXCEPT !.mouse_report = r], "Mouse", MouseBytes(r))

\* SynergyHid::mouse_scroll. `y = -y` overflows for y = -128: a build with overflow
\* checks panics, a build without them leaves -128 (`checked` names the build)
mouse_scroll(h, flip, x, y, checked) ==
    LET x8 == AsI8(x)
        y8 == AsI8(y)
        yf == IF flip THEN (IF y8 = -128 THEN -128 ELSE -y8) ELSE y8
        r  == [h.mouse_report EXCEPT !.wheel = yf, !.pan = x8]
    IN  IF flip /\ y8 = -128 /\ checked THEN Panic(h)
        ELSE Ret([h EXCEPT !.mouse_report = r], "Mouse", MouseBytes(r))

\* SynergyHid::clear for one report type
hid_clear(h, kind) ==
    IF kind = "Keyboard"
    THEN Ret([h EXCEPT !.keyboard_report = KeyboardReportDefault],
             "Keyboard", KeyboardBytes(KeyboardReportDefault))
    ELSE IF kind = "Mouse"
    THEN Ret([h EXCEPT !.mouse_report = MouseReportDefault],
             "Mouse", MouseBytes(MouseReportDefault))
    ELSE Ret([h EXCEPT !.consumer_report = 0], "Consumer", ConsumerBytes(0))

----------------------------------------------------------------------------
(* barpi/src/client.rs: BarpiActuator. An operation maps the bundle of the  *)
(* actuator's state to the bundle after the call; `written` lists the       *)
(* reports the call wrote and `panic` tells that the call panicked. `fail`  *)
(* is the environment's choice that the writes to the gadget files fail.    *)

NoSink == [Keyboard |-> <<>>, Mouse |-> <<>>, Consumer |-> <<>>]

Bundle == [hid |-> hid, act |-> act, sink |-> sink, token |-> token,
           written |-> <<>>, panic |-> FALSE]

\* BarpiActuator::write_report: a failed write cancels the token
write_report(a, report, fail) ==
    The({IF a.panic \/ ret.panic THEN [a EXCEPT !.panic = TRUE, !.hid = ret.hid]
         ELSE IF fail THEN [a EXCEPT !.hid = ret.hid, !.token = TRUE]
         ELSE [a EXCEPT !.hid = ret.hid,
                        !.sink[ret.kind] = ret.bytes,
                        !.written = Append(@, [kind |-> ret.kind, bytes |-> ret.bytes])] :
         ret \in {report}})

\* BarpiActuator::scale_position
act_scale_position(x, y) == <<ActScaleCoord(x, width), ActScaleCoord(y, height)>>

\* BarpiActuator::set_cursor_position
act_set_cursor_position(a, x, y, fail) ==
    LET p == act_scale_position(x, y)
    IN  write_report([a EXCEPT !.act = [x |-> p[1], y |-> p[2]]],
                     hid_set_cursor_position(a.hid, width, height, x, y), fail)

\* BarpiActuator::move_cursor
act_move_cursor(a, dx, dy, fail) ==
    LET nx == AsU16(a.act.x + dx)
        ny == AsU16(a.act.y + dy)
    IN  act_set_cursor_position([a EXCEPT !.act = [x |-> nx, y |-> ny]], nx, ny, fail)

\* BarpiActuator::mouse_down
act_mouse_down(a, button, fail) == write_report(a, hid_mouse_down(a.hid, button), fail)

\* BarpiActuator::mouse_up
act_mouse_up(a, button, fail) == write_report(a, hid_mouse_up(a.hid, button), fail)

\* BarpiActuator::mouse_wheel
act_mouse_wheel(a, x, y, checked, fail) ==
    write_report(a, mouse_scroll(a.hid, flip_mouse_wheel, x, y, checked), fail)

\* BarpiActuator::key_down
act_key_down(a, key, mask, button, fail) ==
    write_report(a, key_down(a.hid, key, mask, button), fail)

\* BarpiActuator::key_up
act_key_up(a, key, mask, button, fail) ==
    write_report(a, key_up(a.hid, key, mask, button), fail)

\* BarpiActuator::leave
leave_keyboard_only(a, fail) == write_report(a, hid_clear(a.hid, "Keyboard"), fail)

leave(a, fail) ==
    The({write_report(a2, hid_clear(a2.hid, "Consumer"), fail) :
           a2 \in {write_report(a1, hid_clear(a1.hid, "Mouse"), fail) :
                     a1 \in {write_report(a, hid_clear(a.hid, "Keyboard"), fail)}}})

\* the variables of the actuator after a call
Apply(a) ==
    /\ hid' = a.hid
    /\ act' = a.act
    /\ sink' = a.sink
    /\ token' = a.token

----------------------------------------------------------------------------
(* The wire format: tags, frames and the packets of packet.rs.              *)

QINF == <<81, 73, 78, 70>>
CIAK == <<67, 73, 65, 75>>
CALV == <<67, 65, 76, 86>>
CNOP == <<67, 78, 79, 80>>
DINF == <<68, 73, 78, 70>>
EUNK == <<69, 85, 78, 75>>
DMMV == <<68, 77, 77, 86>>
DMRM == <<68, 77, 82, 77>>
CINN == <<67, 73, 78, 78>>
COUT == <<67, 79, 85, 84>>
CCLP == <<67, 67, 76, 80>>
DCLP == <<68, 67, 76, 80>>
DMUP == <<68, 77, 85, 80>>
DMDN == <<68, 77, 68, 78>>
DKUP == <<68, 75, 85, 80>>
DKDN == <<68, 75, 68, 78>>
DKRP == <<68, 75, 82, 80>>
DMWM == <<68, 77, 87, 77>>
Barrier == <<66, 97, 114, 114, 105, 101, 114>>

\* a frame as the server writes it: u32 length, tag, body
Frame(tag, body) == U32BE(Len(tag) + Len(body)) \o tag \o body

Pkt(tag, args) == [tag |-> tag, args |-> args]

NoPacket == Pkt("none", <<>>)

AsI16(v) == LET b == v % 65536 IN IF b >= 32768 THEN b - 65536 ELSE b

\* from_be_bytes of 1, 2 or 4 bytes; a u32 of 2^31 or more is held as 2^31 - 1 (every
\* stream of the model is shorter than either, so both read to the end of the stream)
RECURSIVE FromBE(_)
FromBE(b) ==
    IF b = <<>> THEN 0
    ELSE IF Len(b) = 4 /\ b[1] >= 128 THEN 2147483647
    ELSE b[Len(b)] + 256 * FromBE(SubSeq(b, 1, Len(b) - 1))

\* widths of the fixed fields that do_read reads after the tag
FieldWidths(code) ==
    IF code \in {DMMV, DMRM, DMWM} THEN <<2, 2>>
    ELSE IF code = CINN THEN <<2, 2, 4, 2>>
    ELSE IF code = CCLP THEN <<1, 4>>
    ELSE IF code = DCLP THEN <<1, 4, 1>>
    ELSE IF code \in {DMUP, DMDN} THEN <<1>>
    ELSE IF code \in {DKUP, DKDN} THEN <<2, 2, 2>>
    ELSE IF code = DKRP THEN <<2, 2, 2, 2>>
    ELSE <<>>

\* the packet do_read builds from the tag and the values of its fields
PacketOf(code, v) ==
    IF code = QINF THEN Pkt("QueryInfo", <<>>)
    ELSE IF code = CIAK THEN Pkt("InfoAck", <<>>)
    ELSE IF code = CALV THEN Pkt("KeepAlive", <<>>)
    ELSE IF code = EUNK THEN Pkt("ErrorUnknownDevice", <<>>)
    ELSE IF code = DMMV THEN Pkt("MouseMoveAbs", v)
    ELSE IF code = DMRM THEN Pkt("MouseMove", <<AsI16(v[1]), AsI16(v[2])>>)
    ELSE IF code = CINN THEN Pkt("CursorEnter", v)
    ELSE IF code = COUT THEN Pkt("CursorLeave", <<>>)
    ELSE IF code = CCLP THEN Pkt("GrabClipboard", v)
    ELSE IF code = DMUP THEN Pkt("MouseUp", <<AsI8(v[1])>>)
    ELSE IF code = DMDN THEN Pkt("MouseDown", <<AsI8(v[1])>>)
    ELSE IF code = DKUP THEN Pkt("KeyUp", v)
    ELSE IF code = DKDN THEN Pkt("KeyDown", v)
    ELSE IF code = DKRP THEN Pkt("KeyRepeat", <<v[1], v[2], v[4], v[3]>>)
    ELSE IF code = DMWM THEN Pkt("MouseWheel", <<AsI16(v[1]), AsI16(v[2])>>)
    ELSE Pkt("Unknown", <<code>>)

\* PacketWriter::write_str
write_str(data) == U32BE(Len(data)) \o data

\* Packet::write_wire with the KeepAlive arm writing a no-op frame
write_wire_keepalive_as_noop(p) ==
    [panic |-> FALSE,
     bytes |-> IF p.tag = "KeepAlive" THEN write_str(CNOP)
               ELSE IF p.tag = "DeviceInfo"
                    THEN U32BE(4 + 2 * 7) \o DINF \o U16BE(p.args[1]) \o U16BE(p.args[2])
                           \o U16BE(p.args[3]) \o U16BE(p.args[4]) \o U16BE(0)
                           \o U16BE(p.args[6]) \o U16BE(p.args[7])
               ELSE <<>>]

\* Packet::write_wire with w and h of DeviceInfo written in the other order
write_wire_h_before_w(p) ==
    [panic |-> FALSE,
     bytes |-> IF p.tag = "KeepAlive" THEN write_str(CALV)
               ELSE IF p.tag = "DeviceInfo"
                    THEN U32BE(4 + 2 * 7) \o DINF \o U16BE(p.args[1]) \o U16BE(p.args[2])
                           \o U16BE(p.args[4]) \o U16BE(p.args[3]) \o U16BE(0)
                           \o U16BE(p.args[6]) \o U16BE(p.args[7])
               ELSE <<>>]

\* Packet::write_wire: the bytes written, or the panic of unimplemented!(); the
\* variants start() never writes fall in the last arm, which writes nothing
write_wire(p) ==
    IF p.tag = "Unknown" THEN [panic |-> TRUE, bytes |-> <<>>]
    ELSE [panic |-> FALSE,
          bytes |->
            IF p.tag = "QueryInfo" THEN write_str(QINF)
            ELSE IF p.tag = "DeviceInfo"
                 THEN U32BE(4 + 2 * 7) \o DINF \o U16BE(p.args[1]) \o U16BE(p.args[2])
                        \o U16BE(p.args[3]) \o U16BE(p.args[4]) \o U16BE(0)
                        \o U16BE(p.args[6]) \o U16BE(p.args[7])
            ELSE IF p.tag = "ClientNoOp" THEN write_str(CNOP)
            ELSE IF p.tag = "InfoAck" THEN write_str(CIAK)
            ELSE IF p.tag = "KeepAlive" THEN write_str(CALV)
            ELSE IF p.tag = "ErrorUnknownDevice" THEN write_str(EUNK)
            ELSE IF p.tag = "MouseMoveAbs"
                 THEN U32BE(4 + 2 + 2) \o DMMV \o U16BE(p.args[1]) \o U16BE(p.args[2])
            ELSE <<>>]

----------------------------------------------------------------------------
(* PacketStream::read over the byte stream of the socket.                   *)

NoStage == [stage |-> 0, id |-> 0, data |-> <<>>]

Stage(n, id, data) == [stage |-> n, id |-> id, data |-> data]

NoClipboard == [text |-> <<>>, html |-> <<>>, bitmap |-> <<>>]

\* the entries of parse_clipboard: n formats left, cursor at pos
RECURSIVE ParseFormats(_, _, _, _)
ParseFormats(buf, pos, n, ret) ==
    IF n = 0 THEN [err |-> "", data |-> ret]
    ELSE IF pos + 8 > Len(buf) THEN [err |-> "UnexpectedEof", data |-> ret]
    ELSE LET format == FromBE(SubSeq(buf, pos + 1, pos + 4))
             length == FromBE(SubSeq(buf, pos + 5, pos + 8))
             got == SubSeq(buf, pos + 9, Min(pos + 8 + length, Len(buf)))
         IN  IF format \notin {0, 1, 2} THEN [err |-> "FormatError", data |-> ret]
             ELSE ParseFormats(buf, pos + 8 + Len(got), n - 1,
                               IF format = 0 THEN [ret EXCEPT !.text = @ \o got]
                               ELSE IF format = 1 THEN [ret EXCEPT !.html = @ \o got]
                               ELSE [ret EXCEPT !.bitmap = @ \o got])

\* clipboard.rs parse_clipboard: u32 size, u32 num_formats, then the entries
parse_clipboard(buf) ==
    IF Len(buf) < 8 THEN [err |-> "UnexpectedEof", data |-> NoClipboard]
    ELSE ParseFormats(buf, 8, FromBE(SubSeq(buf, 5, 8)), NoClipboard)

\* str::parse::<u32> succeeds: an optional '+', then digits whose value fits 32 bits
\* (more than 9 digits are taken not to fit)
IsDigits(b) ==
    LET d == IF b # <<>> /\ b[1] = 43 THEN Tail(b) ELSE b
    IN  d # <<>> /\ Len(d) <= 9 /\ \A i \in 1..Len(d) : d[i] \in 48..57

\* the transitions with an illegal chunk leaving the stage as it was
ReassembleKeepsStage(stage, id, mark, buf) ==
    IF mark = 1 THEN
        IF stage.stage = 0 THEN
            IF Len(buf) < 4 THEN [st |-> "panic", stage |-> stage]
            ELSE IF ~IsDigits(SubSeq(buf, 5, Len(buf)))
                 THEN [st |-> "FormatError", stage |-> stage]
            ELSE [st |-> "ok", stage |-> Stage(1, id, <<>>)]
        ELSE IF stage.stage = 3 THEN [st |-> "ok", stage |-> Stage(1, stage.id, <<>>)]
        ELSE [st |-> "ok", stage |-> stage]
    ELSE IF mark \in {2, 3} THEN
        IF stage.stage \in {1, 2}
        THEN [st |-> "ok", stage |-> Stage(mark, stage.id, stage.data \o buf)]
        ELSE [st |-> "ok", stage |-> stage]
    ELSE [st |-> "ok", stage |-> stage]

\* the transitions of clipboard_stage on a DCLP chunk with the given mark and body:
\* [st, stage] where st is "ok", "panic" (the index into a body shorter than 4 bytes)
\* or "FormatError" (the size string of the first chunk is not a number)
Reassemble(stage, id, mark, buf) ==
    IF mark = 1 THEN
        IF stage.stage = 0 THEN
            IF Len(buf) < 4 THEN [st |-> "panic", stage |-> stage]
            ELSE IF ~IsDigits(SubSeq(buf, 5, Len(buf)))
                 THEN [st |-> "FormatError", stage |-> stage]
            ELSE [st |-> "ok", stage |-> Stage(1, id, <<>>)]
        ELSE IF stage.stage = 3 THEN [st |-> "ok", stage |-> Stage(1, stage.id, <<>>)]
        ELSE [st |-> "ok", stage |-> NoStage]
    ELSE IF mark \in {2, 3} THEN
        IF stage.stage \in {1, 2}
        THEN [st |-> "ok", stage |-> Stage(mark, stage.id, stage.data \o buf)]
        ELSE [st |-> "ok", stage |-> NoStage]
    ELSE [st |-> "ok", stage |-> NoStage]

\* the body of a DCLP chunk as do_read holds it: Vec::with_capacity(limit) has length
\* 0, so read_exact(&mut buf) fills no byte and takes none from the stream
DclpBody(s, pos, limit) == <<>>

\* the reads of the fixed fields, each followed by `limit -= width`; a limit below 0
\* stands for the wrapped usize of a build without overflow checks
RECURSIVE ReadFields(_, _, _, _, _, _)
ReadFields(s, closed, pos, limit, widths, checked) ==
    IF widths = <<>> THEN [st |-> "ok", pos |-> pos, limit |-> limit, vals |-> <<>>]
    ELSE LET w == Head(widths) IN
        IF pos + w > Len(s)
        THEN [st |-> IF closed THEN "UnexpectedEof" ELSE "block",
              pos |-> Len(s), limit |-> limit, vals |-> <<>>]
        ELSE IF checked /\ limit >= 0 /\ limit < w
        THEN [st |-> "panic", pos |-> pos + w, limit |-> limit, vals |-> <<>>]
        ELSE LET rest == ReadFields(s, closed, pos + w, limit - w, Tail(widths), checked)
             IN  [rest EXCEPT !.vals = <<FromBE(SubSeq(s, pos + 1, pos + w))>> \o @]

ReadResult(st, used, p, stage) == [st |-> st, used |-> used, packet |-> p, stage |-> stage]

\* discard_exact(limit) at the end of do_read
Discard(s, closed, pos, limit, p, stage) ==
    IF limit >= 0 /\ pos + limit <= Len(s) THEN ReadResult("ok", pos + limit, p, stage)
    ELSE IF closed THEN ReadResult("UnexpectedEof", Len(s), NoPacket, stage)
    ELSE ReadResult("block", 0, NoPacket, stage)

\* the DCLP arm of do_read after its three fields <<id, seq_num, mark>>
ReadClipboard(s, closed, pos, limit, v, stage) ==
    IF limit < 0 THEN ReadResult("panic", pos, NoPacket, stage)
    ELSE LET buf == DclpBody(s, pos, limit)
             r == Reassemble(stage, v[1], v[3], buf)
             c == parse_clipboard(r.stage.data)
         IN  IF r.st # "ok" THEN ReadResult(r.st, pos + Len(buf), NoPacket, stage)
             ELSE IF r.stage.stage # 3
             THEN Discard(s, closed, pos + Len(buf), 0, Pkt("ClientNoOp", <<>>), r.stage)
             ELSE IF c.err # "" THEN ReadResult(c.err, pos + Len(buf), NoPacket, r.stage)
             ELSE Discard(s, closed, pos + Len(buf), 0,
                          Pkt("SetClipboard", <<r.stage.id, c.data>>), r.stage)

\* PacketStream::do_read, the stream at the tag
do_read(s, closed, pos, size, stage, checked) ==
    IF pos + 4 > Len(s)
    THEN ReadResult(IF closed THEN "UnexpectedEof" ELSE "block", Len(s), NoPacket, stage)
    ELSE LET code == SubSeq(s, pos + 1, pos + 4)
             f == ReadFields(s, closed, pos + 4, size - 4, FieldWidths(code), checked)
         IN  IF f.st # "ok" THEN ReadResult(f.st, f.pos, NoPacket, stage)
             ELSE IF code = DCLP THEN ReadClipboard(s, closed, f.pos, f.limit, f.vals, stage)
             ELSE Discard(s, closed, f.pos, f.limit, PacketOf(code, f.vals), stage)

\* a read that hands a declared length below 4 to do_read like any other
ReadAnySize(s, closed, stage, checked) ==
    IF Len(s) < 4
    THEN ReadResult(IF closed THEN "UnexpectedEof" ELSE "block", Len(s), NoPacket, stage)
    ELSE do_read(s, closed, 4, FromBE(SubSeq(s, 1, 4)), stage, checked)

\* PacketStream::read on the bytes s of the socket: how it ends ("ok", an error, "panic",
\* or "block" while the bytes it waits for have not arrived), the number of bytes taken
\* from the stream, the packet and the stage it leaves
Read(s, closed, stage, checked) ==
    IF Len(s) < 4
    THEN ReadResult(IF closed THEN "UnexpectedEof" ELSE "block", Len(s), NoPacket, stage)
    ELSE LET size == FromBE(SubSeq(s, 1, 4)) IN
        IF size < 4
        THEN IF 4 + size <= Len(s) THEN ReadResult("PacketTooSmall", 4 + size, NoPacket, stage)
             ELSE ReadResult(IF closed THEN "UnexpectedEof" ELSE "block", Len(s), NoPacket, stage)
        ELSE do_read(s, closed, 4, size, stage, checked)

----------------------------------------------------------------------------
(* The Actuator trait as start() uses it, call by call.                     *)

\* history: the last call, its arguments and the reports it wrote; the id of the
\* unmatched key-down of each slot (-1 when there is none); the slots with an unmatched
\* key-down, in the order of the key-downs; whether every key event so
\* far came on a matching slot (a key-down on a free slot, a key-up on a taken one)
\* and pressed no usage that was already held
HistInit ==
    [op |-> "new", args |-> <<>>, written |-> <<>>,
     down |-> [b \in Slots |-> -1], order |-> <<>>, matching |-> TRUE]

\* the slots of `order` other than b
OtherSlots(order, b) == LET Other(c) == c # b IN SelectSeq(order, Other)

HeldUsages(down) == {synergy_to_hid(down[b]).code : b \in {c \in Slots : down[c] >= 0}}

Call(op, args) == [op |-> op, args |-> args]

NoCall == Call("none", <<>>)

\* the method of BarpiActuator that a call runs; connected, disconnected, enter,
\* key_repeat and set_clipboard only log
actuate(a, c, checked, fail) ==
    IF c.op = "set_cursor_position" THEN act_set_cursor_position(a, c.args[1], c.args[2], fail)
    ELSE IF c.op = "move_cursor" THEN act_move_cursor(a, c.args[1], c.args[2], fail)
    ELSE IF c.op = "mouse_down" THEN act_mouse_down(a, c.args[1], fail)
    ELSE IF c.op = "mouse_up" THEN act_mouse_up(a, c.args[1], fail)
    ELSE IF c.op = "mouse_wheel" THEN act_mouse_wheel(a, c.args[1], c.args[2], checked, fail)
    ELSE IF c.op = "key_down" THEN act_key_down(a, c.args[1], c.args[2], c.args[3], fail)
    ELSE IF c.op = "key_up" THEN act_key_up(a, c.args[1], c.args[2], c.args[3], fail)
    ELSE IF c.op = "leave" THEN leave(a, fail)
    ELSE a

\* the history after a call that took the actuator from `before` to `after`; a key
\* event is recorded by its slot, leave by whether all three reports were non-zero
HistOf(h, c, before, after) ==
    IF c.op = "key_down" THEN
        LET key == c.args[1]
            button == c.args[3]
        IN  [h EXCEPT
               !.op = c.op, !.args = <<button>>, !.written = after.written,
               !.down = IF button \in Slots THEN [@ EXCEPT ![button] = key] ELSE @,
               !.order = IF button \in Slots THEN Append(OtherSlots(@, button), button) ELSE @,
               !.matching = /\ @
                            /\ button \in Slots
                            /\ h.down[button] = -1
                            /\ synergy_to_hid(key).code \notin HeldUsages(h.down)]
    ELSE IF c.op = "key_up" THEN
        LET button == c.args[3]
        IN  [h EXCEPT
               !.op = c.op, !.args = <<button>>, !.written = after.written,
               !.down = IF button \in Slots THEN [@ EXCEPT ![button] = -1] ELSE @,
               !.order = OtherSlots(@, button),
               !.matching = @ /\ button \in Slots /\ h.down[button] >= 0]
    ELSE IF c.op = "leave" THEN
        [h EXCEPT !.op = c.op, !.written = after.written,
                  !.args = <<before.hid.keyboard_report # KeyboardReportDefault
                               /\ before.hid.mouse_report # MouseReportDefault
                               /\ before.hid.consumer_report # 0>>]
    ELSE [h EXCEPT !.op = c.op, !.args = c.args, !.written = after.written]

\* one call of an Actuator method; the task goes on at `next` unless the call panics
Invoke(c, checked, fail, next) ==
    \E a \in {actuate(Bundle, c, checked, fail)} :
        /\ Apply(a)
        /\ pc' = IF a.panic THEN "panic" ELSE next
        /\ hist' = HistOf(hist, c, Bundle, a)
        /\ UNCHANGED <<width, height, flip_mouse_wheel>>

KeyDownCall(K, S, F) ==
    \E key \in K, button \in S, fail \in F :
        pc = "api" /\ Invoke(Call("key_down", <<key, 0, button>>), FALSE, fail, "api")

KeyUpCall(K, S, F) ==
    \E key \in K, button \in S, fail \in F :
        pc = "api" /\ Invoke(Call("key_up", <<key, 0, button>>), FALSE, fail, "api")

SetCursorPositionCall(C, F) ==
    \E x \in C, y \in C, fail \in F :
        pc = "api" /\ Invoke(Call("set_cursor_position", <<x, y>>), FALSE, fail, "api")

MoveCursorCall(D, F) ==
    \E dx \in D, dy \in D, fail \in F :
        pc = "api" /\ Invoke(Call("move_cursor", <<dx, dy>>), FALSE, fail, "api")

MouseDownCall(B, F) ==
    \E button \in B, fail \in F :
        pc = "api" /\ Invoke(Call("mouse_down", <<button>>), FALSE, fail, "api")

MouseUpCall(B, F) ==
    \E button \in B, fail \in F :
        pc = "api" /\ Invoke(Call("mouse_up", <<button>>), FALSE, fail, "api")

MouseWheelCall(W, F) ==
    \E x \in W, y \in W, checked \in BOOLEAN, fail \in F :
        pc = "api" /\ Invoke(Call("mouse_wheel", <<x, y>>), checked, fail, "api")

LeaveCall(F) ==
    \E fail \in F :
        pc = "api" /\ Invoke(Call("leave", <<>>), FALSE, fail, "api")

\* main() before its tasks run: no sleep, no silence, no signal
NoSupervisor == [slept |-> 0, idle |-> 0, fired |-> 0]

\* the session and supervisor variables, unused while the actuator is driven directly
WireIdle ==
    /\ sup = NoSupervisor
    /\ rx = <<>> /\ rxClosed = FALSE /\ tx = <<>> /\ sent = <<>>
    /\ clipboard_stage = NoStage /\ packet = NoPacket /\ log = <<>> /\ calls = <<>>
    /\ device_name = <<>> /\ result = "none"

WireSame ==
    UNCHANGED <<rx, rxClosed, tx, sent, clipboard_stage, packet, log, calls,
                device_name, result, sup>>

\* BarpiActuator::new
ActuatorNew(sizes, flips) ==
    /\ \E sz \in sizes : width = sz[1] /\ height = sz[2]
    /\ flip_mouse_wheel \in flips
    /\ hid = SynergyHidNew
    /\ act = [x |-> 0, y |-> 0]
    /\ sink = NoSink
    /\ token = FALSE
    /\ hist = HistInit

----------------------------------------------------------------------------
(* SpecScale: cursor positioning on screens of several sizes.               *)

MaxCoord == 3

ScaleSizes == {<<w, w + 1>> : w \in 1..MaxCoord} \cup {<<1920, 1080>>, <<105, 210>>}

ScaleCoords == 0..MaxCoord \cup {45, 90, 1079, 1919, 65535}

InitScale == pc = "api" /\ WireIdle /\ ActuatorNew(ScaleSizes, {FALSE})

NextScale == SetCursorPositionCall(ScaleCoords, {FALSE}) /\ WireSame

SpecScale == InitScale /\ [][NextScale]_vars

InScreen(h) == h.op = "set_cursor_position" /\ h.args[1] < width /\ h.args[2] < height

\* C6: for every (x, y) with 0 <= x < width and 0 <= y < height the coordinates that
\* set_cursor_position computes lie in [0, 0x7FFF], and of two successive positions
\* inside the screen the one with the larger x (y) gets the larger or equal hid x (y)
C6_ScaleInRangeMonotone ==
    /\ [](InScreen(hist) => hid.x \in 0..32767 /\ hid.y \in 0..32767)
    /\ [][InScreen(hist) /\ InScreen(hist')
            => /\ (hist.args[1] <= hist'.args[1] => hid.x <= hid'.x)
               /\ (hist.args[2] <= hist'.args[2] => hid.y <= hid'.y)]_vars

C6_Witness ==
    /\ InScreen(hist) /\ width = 1920 /\ height = 1080
    /\ hist.args = <<1919, 1079>>
    /\ hid.x \in 32000..32767 /\ hid.y \in 32000..32767

\* C28: for every x and y of the u16 range, inside the screen or not, and every non-zero
\* width and height, the coordinates that set_cursor_position places in the mouse
\* report, and in the bytes it returns, are at most 0x7FFF
C28_ScaleSaturatesAt7FFF ==
    hist.op = "set_cursor_position" /\ width # 0 /\ height # 0 =>
        /\ hid.mouse_report.x <= 32767 /\ hid.mouse_report.y <= 32767
        /\ hist.written = <<[kind |-> "Mouse", bytes |-> MouseBytes(hid.mouse_report)]>>
        /\ hist.written[1].bytes[3] <= 127 /\ hist.written[1].bytes[5] <= 127

----------------------------------------------------------------------------
(* SpecKeys: key events on a few slots.                                     *)

NumLetters == 2

KeyIds == 65..(64 + NumLetters) \cup {0, kKeyShift_L, kKeyAudioMute}

InitKeys == pc = "api" /\ WireIdle /\ ActuatorNew({<<1920, 1080>>}, {FALSE})

NextKeys ==
    \/ KeyDownCall(KeyIds, Slots, {FALSE}) /\ WireSame
    \/ KeyUpCall(KeyIds, Slots, {FALSE}) /\ WireSame

SpecKeys == InitKeys /\ [][NextKeys]_vars

NonZeroSlots(r) == Cardinality({i \in 1..6 : r.keycode[i] # 0})

\* slots whose unmatched key-down carries an id mapped to a non-modifier keyboard key
UnmatchedNonModifier(down) ==
    {b \in Slots : /\ down[b] >= 0
                   /\ synergy_to_hid(down[b]).kind = "Key"
                   /\ ~IsModifier(synergy_to_hid(down[b]).code)}

\* C3: after every key event of a sequence with matching slots, the number of
\* non-zero slots among key1..key6 equals the number of unmatched non-modifier
\* key-downs, bounded at 6, also when unmapped ids or consumer keys are pressed
C3_SlotsCountUnmatched ==
    hist.matching =>
        NonZeroSlots(hid.keyboard_report)
            = Min(Cardinality(UnmatchedNonModifier(hist.down)), 6)

\* C13: after any sequence of key-downs and key-ups, for every slot b,
\* server_buttons[b] is non-zero exactly when the last key event on slot b was a
\* key-down, whatever id the key-down carried
C13_ServerButtonsTrackKeyDowns ==
    \A b \in Slots : hid.server_buttons[b] # 0 <=> hist.down[b] >= 0

----------------------------------------------------------------------------
(* SpecActuator: every kind of event, then CursorLeave.                     *)

ActKeys == {65, kKeyShift_L, kKeyAudioMute}

ActSlots == {0}

ActCoords == {960}

ActButtons == {1}

ActWheel == {120}

InitActuator == pc = "api" /\ WireIdle /\ ActuatorNew({<<1920, 1080>>}, {FALSE})

NextActuator ==
    \/ KeyDownCall(ActKeys, ActSlots, {FALSE}) /\ WireSame
    \/ KeyUpCall(ActKeys, ActSlots, {FALSE}) /\ WireSame
    \/ SetCursorPositionCall(ActCoords, {FALSE}) /\ WireSame
    \/ MouseDownCall(ActButtons, {FALSE}) /\ WireSame
    \/ MouseUpCall(ActButtons, {FALSE}) /\ WireSame
    \/ MouseWheelCall(ActWheel, {FALSE}) /\ WireSame
    \/ LeaveCall(BOOLEAN) /\ WireSame

SpecActuator == InitActuator /\ [][NextActuator]_vars

----------------------------------------------------------------------------
(* start(): the handshake and the dispatch loop, against a server that      *)
(* writes whole frames.                                                     *)

Running == pc \in {"hello", "read", "dispatch"}

\* the server writes its hello, the first frame of a connection
ServerHello(H) ==
    /\ pc = "hello" /\ ~rxClosed /\ sent = <<>>
    /\ \E h \in H : rx' = rx \o h /\ sent' = <<h>>
    /\ UNCHANGED <<pc, rxClosed, tx, clipboard_stage, packet, log, calls, device_name,
                   result, width, height, flip_mouse_wheel, hid, act, sink, token, hist>>

\* the server writes one more frame (after its hello, when the handshake is to come)
ServerSend(F, max) ==
    /\ Running /\ ~rxClosed /\ Len(sent) < max
    /\ pc = "hello" => sent # <<>>
    /\ \E f \in F : rx' = rx \o f /\ sent' = Append(sent, f)
    /\ UNCHANGED <<pc, rxClosed, tx, clipboard_stage, packet, log, calls, device_name,
                   result, width, height, flip_mouse_wheel, hid, act, sink, token, hist>>

\* the server closes the connection
ServerClose ==
    /\ Running /\ ~rxClosed
    /\ rxClosed' = TRUE
    /\ UNCHANGED <<pc, rx, tx, sent, clipboard_stage, packet, log, calls, device_name,
                   result, width, height, flip_mouse_wheel, hid, act, sink, token, hist>>

\* the reply of the handshake with the length of a reply for a four-byte name
HelloReplyFixedLength(name) ==
    U32BE(Len(Barrier) + 2 + 2 + 4 + 4) \o Barrier \o U16BE(1) \o U16BE(6) \o write_str(name)

\* the reply of the handshake with a length that leaves out the name
HelloReplyShortLength(name) ==
    U32BE(Len(Barrier) + 2 + 2 + 4 - 1) \o Barrier \o U16BE(1) \o U16BE(6) \o write_str(name)

\* the reply of the handshake
HelloReply(name) ==
    U32BE(Len(Barrier) + 2 + 2 + 4 + Len(name)) \o Barrier \o U16BE(1) \o U16BE(6)
        \o write_str(name)

\* a handshake that does not compare the seven bytes with "Barrier"
HandshakeAnyName(s, closed) ==
    IF Len(s) < 4 + 7 + 2 + 2
    THEN [st |-> IF closed THEN "UnexpectedEof" ELSE "block", used |-> Len(s)]
    ELSE [st |-> "ok", used |-> 15]

\* how the handshake ends on the bytes s: "block", an error, or "ok"; and the bytes read
Handshake(s, closed) ==
    IF Len(s) < 4 + 7
    THEN [st |-> IF closed THEN "UnexpectedEof" ELSE "block", used |-> Len(s)]
    ELSE IF SubSeq(s, 5, 11) # Barrier
    THEN [st |-> "ProtocolError(FormatError)", used |-> 11]
    ELSE IF Len(s) < 4 + 7 + 2 + 2
    THEN [st |-> IF closed THEN "UnexpectedEof" ELSE "block", used |-> Len(s)]
    ELSE [st |-> "ok", used |-> 15]

\* start() with a reassembly state that begins in the middle of a transfer
HelloInMark2(W) ==
    /\ pc = "hello"
    /\ \E wfail \in W, h \in {Handshake(rx, rxClosed)} :
        /\ h.st # "block"
        /\ rx' = Drop(rx, h.used)
        /\ log' = Append(log, [frame |-> Take(rx, h.used), from |-> clipboard_stage,
                               st |-> h.st, packet |-> NoPacket])
        /\ IF h.st # "ok"
           THEN pc' = "returned" /\ result' = h.st /\ UNCHANGED <<tx, calls>>
           ELSE IF wfail
           THEN pc' = "returned" /\ result' = "IoError" /\ UNCHANGED <<tx, calls>>
           ELSE /\ tx' = tx \o HelloReply(device_name)
                /\ calls' = Append(calls, Call("connected", <<>>))
                /\ pc' = "read"
                /\ result' = result
    /\ clipboard_stage' = [stage |-> 2, id |-> 1, data |-> <<84>>]
    /\ UNCHANGED <<rxClosed, sent, packet, device_name,
                   width, height, flip_mouse_wheel, hid, act, sink, token, hist>>

\* start() up to the dispatch loop: read the hello, write the reply, actor.connected()
Hello(W) ==
    /\ pc = "hello"
    /\ \E wfail \in W, h \in {Handshake(rx, rxClosed)} :
        /\ h.st # "block"
        /\ rx' = Drop(rx, h.used)
        /\ log' = Append(log, [frame |-> Take(rx, h.used), from |-> clipboard_stage,
                               st |-> h.st, packet |-> NoPacket])
        /\ IF h.st # "ok"
           THEN pc' = "returned" /\ result' = h.st /\ UNCHANGED <<tx, calls>>
           ELSE IF wfail
           THEN pc' = "returned" /\ result' = "IoError" /\ UNCHANGED <<tx, calls>>
           ELSE /\ tx' = tx \o HelloReply(device_name)
                /\ calls' = Append(calls, Call("connected", <<>>))
                /\ pc' = "read"
                /\ result' = result
    /\ clipboard_stage' = NoStage
    /\ UNCHANGED <<rxClosed, sent, packet, device_name,
                   width, height, flip_mouse_wheel, hid, act, sink, token, hist>>

\* packet_stream.read() at the head of the loop; an error ends the loop, and start()
\* calls actor.disconnected() and returns Disconnected
ReadPacket ==
    /\ pc = "read"
    /\ \E checked \in BOOLEAN :
        \E r \in {Read(rx, rxClosed, clipboard_stage, checked)} :
            /\ r.st # "block"
            /\ rx' = Drop(rx, r.used)
            /\ clipboard_stage' = r.stage
            /\ packet' = r.packet
            /\ log' = Append(log, [frame |-> Take(rx, r.used), from |-> clipboard_stage,
                                   st |-> r.st, packet |-> r.packet])
            /\ IF r.st = "ok" THEN pc' = "dispatch" /\ UNCHANGED <<calls, result>>
               ELSE IF r.st = "panic" THEN pc' = "panic" /\ UNCHANGED <<calls, result>>
               ELSE /\ pc' = "returned"
                    /\ calls' = Append(calls, Call("disconnected", <<>>))
                    /\ result' = "Disconnected"
    /\ UNCHANGED <<rxClosed, tx, sent, device_name,
                   width, height, flip_mouse_wheel, hid, act, sink, token, hist>>

\* the packet start() writes in answer to p
ReplyOf(p) ==
    IF p.tag = "QueryInfo" THEN Pkt("DeviceInfo", <<0, 0, width, height, 0, 0, 0>>)
    ELSE IF p.tag = "KeepAlive" THEN Pkt("KeepAlive", <<>>)
    ELSE NoPacket

\* the Actuator method start() calls for p
CallOf(p) ==
    IF p.tag = "MouseMoveAbs"
    THEN Call("set_cursor_position",
              <<ScaleCoord(p.args[1], width), ScaleCoord(p.args[2], height)>>)
    ELSE IF p.tag = "MouseMove" THEN Call("move_cursor", p.args)
    ELSE IF p.tag = "KeyUp" THEN Call("key_up", p.args)
    ELSE IF p.tag = "KeyDown" THEN Call("key_down", p.args)
    ELSE IF p.tag = "KeyRepeat" THEN Call("key_repeat", p.args)
    ELSE IF p.tag = "MouseDown" THEN Call("mouse_down", p.args)
    ELSE IF p.tag = "MouseUp" THEN Call("mouse_up", p.args)
    ELSE IF p.tag = "MouseWheel" THEN Call("mouse_wheel", p.args)
    ELSE IF p.tag = "CursorEnter" THEN Call("enter", <<>>)
    ELSE IF p.tag = "CursorLeave" THEN Call("leave", <<>>)
    ELSE IF p.tag = "SetClipboard" /\ p.args[2] # NoClipboard
    THEN Call("set_clipboard", <<p.args[2]>>)
    ELSE NoCall

\* the body of the loop for the packet just read
Dispatch(F, W) ==
    /\ pc = "dispatch"
    /\ \E fail \in F, wfail \in W, checked \in BOOLEAN :
        IF ReplyOf(packet) # NoPacket
        THEN /\ IF wfail
                THEN /\ calls' = Append(calls, Call("disconnected", <<>>))
                     /\ result' = "IoError"
                     /\ pc' = "returned"
                     /\ tx' = tx
                ELSE /\ tx' = tx \o write_wire(ReplyOf(packet)).bytes
                     /\ pc' = "read"
                     /\ UNCHANGED <<calls, result>>
             /\ UNCHANGED <<width, height, flip_mouse_wheel, hid, act, sink, token, hist>>
        ELSE IF CallOf(packet) # NoCall
        THEN /\ Invoke(CallOf(packet), checked, fail, "read")
             /\ calls' = Append(calls, CallOf(packet))
             /\ UNCHANGED <<tx, result>>
        ELSE /\ pc' = "read"
             /\ UNCHANGED <<tx, calls, result,
                            width, height, flip_mouse_wheel, hid, act, sink, token, hist>>
    /\ packet' = NoPacket
    /\ UNCHANGED <<rx, rxClosed, sent, clipboard_stage, log, device_name>>

\* the state in which start() is called
StartInit(names, stages) ==
    /\ rx = <<>> /\ rxClosed = FALSE /\ tx = <<>> /\ sent = <<>>
    /\ clipboard_stage \in stages /\ packet = NoPacket /\ log = <<>> /\ calls = <<>>
    /\ device_name \in names /\ result = "none"

----------------------------------------------------------------------------
(* SpecSession: one connection, from the hello to the end of start().       *)

MaxFrames == 4

TEST == <<84, 69, 83, 84>>

HelloFrame(major, minor) == U32BE(11) \o Barrier \o U16BE(major) \o U16BE(minor)

HelloFrames == {HelloFrame(1, 6), HelloFrame(1, 8), U32BE(11) \o QINF \o <<0, 0, 0>> \o U16BE(1) \o U16BE(6)}

DclpFrame(id, seq, mark, body) == Frame(DCLP, <<id>> \o U32BE(seq) \o <<mark>> \o body)

SessionFrames ==
    { Frame(CALV, <<>>), Frame(QINF, <<>>), Frame(COUT, <<>>),
      Frame(DMMV, U16BE(1920) \o U16BE(1080)),
      DclpFrame(0, 7, 1, U32BE(1) \o <<52>>),
      DclpFrame(0, 7, 2, U32BE(16) \o U32BE(1) \o U32BE(0) \o U32BE(4) \o TEST),
      DclpFrame(0, 7, 3, <<>>) }

InitSession ==
    pc = "hello" /\ StartInit({TEST}, {NoStage})
        /\ ActuatorNew({<<1920, 1080>>, <<800, 600>>}, {FALSE})
        /\ sup = NoSupervisor

NextSession ==
    \/ ServerHello(HelloFrames) /\ UNCHANGED sup
    \/ ServerSend(SessionFrames, MaxFrames) /\ UNCHANGED sup
    \/ ServerClose /\ UNCHANGED sup
    \/ Hello({FALSE}) /\ UNCHANGED sup
    \/ ReadPacket /\ UNCHANGED sup
    \/ Dispatch({FALSE}, BOOLEAN) /\ UNCHANGED sup

SpecSession == InitSession /\ [][NextSession]_vars

\* the hello of a Barrier 1.6 server: 0000000B 42617272696572 0001 0006
Hello16 == <<0, 0, 0, 11, 66, 97, 114, 114, 105, 101, 114, 0, 1, 0, 6>>

\* the handshake has read the hello of a 1.6 server for the screen name TEST
HelloDone16 ==
    /\ log # <<>> /\ log[1].frame = Hello16 /\ log[1].st = "ok"
    /\ result # "IoError" \/ Len(log) > 1
    /\ device_name = <<84, 69, 83, 84>>

\* C7 (as the code has it): when the server's first frame is 0000000B 42617272696572
\* 0001 0006 and the screen name is TEST, nothing is written before the hello is read
\* and the first bytes written are 00000013 42617272696572 0001 0006 00000004 54455354
C7_HelloReply13 ==
    /\ pc = "hello" => tx = <<>>
    /\ HelloDone16 =>
         Take(tx, 23) = <<0, 0, 0, 19, 66, 97, 114, 114, 105, 101, 114, 0, 1, 0, 6,
                          0, 0, 0, 4, 84, 69, 83, 84>>

\* C7 as stated: the first bytes written are 0000000E 42617272696572 0001 0006
\* 00000004 54455354
C7_HelloReply0E ==
    HelloDone16 =>
        Take(tx, 23) = <<0, 0, 0, 14, 66, 97, 114, 114, 105, 101, 114, 0, 1, 0, 6,
                         0, 0, 0, 4, 84, 69, 83, 84>>

C7_Witness == HelloDone16 /\ pc = "read" /\ Len(tx) = 23 /\ calls = <<Call("connected", <<>>)>>

KeepAliveFrame == <<0, 0, 0, 4, 67, 65, 76, 86>>

\* the reply 00000012 44494E46 0000 0000 w h 0000 0000 0000 to a QueryInfo
DinfReply(w, h) ==
    <<0, 0, 0, 18, 68, 73, 78, 70, 0, 0, 0, 0>> \o U16BE(w) \o U16BE(h)
        \o <<0, 0, 0, 0, 0, 0>>

\* what the client owes the server for one entry of the log
ReplyDue(e) ==
    IF e.st # "ok" THEN <<>>
    ELSE IF e.packet = NoPacket THEN HelloReply(device_name)
    ELSE IF e.packet.tag = "KeepAlive" THEN KeepAliveFrame
    ELSE IF e.packet.tag = "QueryInfo" THEN DinfReply(width, height)
    ELSE <<>>

RECURSIVE RepliesDue(_, _)
RepliesDue(l, n) == IF n = 0 THEN <<>> ELSE RepliesDue(l, n - 1) \o ReplyDue(l[n])

\* the entries of the log whose packet has been through the body of the loop
Dispatched == IF pc = "dispatch" THEN Len(log) - 1 ELSE Len(log)

\* C8: the bytes written are, in the order of arrival, one reply for each KeepAlive
\* (the frame 00000004 43414C56 itself) and QueryInfo dispatched so far; so when the
\* client reads the next frame every earlier one is answered, and a failed write of a
\* reply (which ends the session) is the only reply missing
C8_RepliesBeforeNextRead ==
    IF result = "IoError" /\ Len(log) > 1 THEN tx = RepliesDue(log, Len(log) - 1)
    ELSE IF result = "IoError" THEN tx = <<>>
    ELSE tx = RepliesDue(log, Dispatched)

C8_Witness ==
    /\ pc = "read" /\ Len(log) = 4 /\ result = "none"
    /\ log[2].frame = KeepAliveFrame
    /\ log[3].packet.tag = "QueryInfo"
    /\ log[4].frame = KeepAliveFrame
    /\ SubSeqFrom(tx, 24) = KeepAliveFrame \o DinfReply(width, height) \o KeepAliveFrame

\* C9: the body of the loop answers a QueryInfo with exactly one frame, 00000012 DINF
\* 0 0 w h 0 0 0 as big-endian u16 with w, h the actuator's screen size; with 1920 x
\* 1080 these are the bytes 00000012 44494E46 0000 0000 0780 0438 0000 0000 0000
C9_QueryInfoReply ==
    [][pc = "dispatch" /\ packet.tag = "QueryInfo" /\ pc' = "read"
         => /\ tx' = tx \o DinfReply(width, height)
            /\ width = 1920 /\ height = 1080
                 => SubSeqFrom(tx', Len(tx) + 1)
                        = <<0, 0, 0, 18, 68, 73, 78, 70, 0, 0, 0, 0, 7, 128, 4, 56,
                            0, 0, 0, 0, 0, 0>>]_vars

C9_Witness ==
    /\ pc = "read" /\ Len(log) = 2 /\ log[2].packet.tag = "QueryInfo"
    /\ width = 1920 /\ height = 1080 /\ Len(tx) = 23 + 22
    /\ SubSeqFrom(tx, 24) = DinfReply(1920, 1080)

\* C10: after the loop has dispatched the frame 00000008 444D4D56 0780 0438 on a
\* 1920 x 1080 screen, the mouse report written to the gadget carries x = 0x7FFF and
\* y = 0x7FFF
C10_MouseMoveAbsScaledOnce ==
    /\ pc = "read" /\ log # <<>>
    /\ log[Len(log)].frame = <<0, 0, 0, 8, 68, 77, 77, 86, 7, 128, 4, 56>>
    /\ width = 1920 /\ height = 1080
    => /\ hid.mouse_report.x = 32767 /\ hid.mouse_report.y = 32767
       /\ sink.Mouse = MouseBytes([hid.mouse_report EXCEPT !.x = 32767, !.y = 32767])

\* f is one DCLP frame: length, tag, u8 id, u32 seq_num, u8 mark, body
\* actor.connected() has been called: the handshake succeeded
Connected == \E i \in 1..Len(calls) : calls[i] = Call("connected", <<>>)

Disconnects == Cardinality({i \in 1..Len(calls) : calls[i] = Call("disconnected", <<>>)})

\* C17: when start() has returned after a successful handshake, whatever ended the
\* dispatch loop, actor.disconnected() has been called exactly once and the value
\* returned is the error Disconnected
C17_LoopExitDisconnected ==
    pc = "returned" /\ Connected => Disconnects = 1 /\ result = "Disconnected"

IsChunk(f) == Len(f) >= 14 /\ SubSeq(f, 5, 8) = DCLP /\ FromBE(SubSeq(f, 1, 4)) = Len(f) - 4

\* frames 2..n of fs are chunks; their bodies one after the other
RECURSIVE Bodies(_, _)
Bodies(fs, n) == IF n <= 1 THEN <<>> ELSE Bodies(fs, n - 1) \o SubSeqFrom(fs[n], 15)

\* fs is one mark=1 chunk, mark=2 chunks and one mark=3 chunk whose bodies parse
ClipSequence(fs) ==
    /\ Len(fs) >= 2
    /\ \A i \in 1..Len(fs) :
         /\ IsChunk(fs[i])
         /\ fs[i][14] = (IF i = 1 THEN 1 ELSE IF i = Len(fs) THEN 3 ELSE 2)
    /\ parse_clipboard(Bodies(fs, Len(fs))).err = ""

\* the task cannot take another step on the frames sent so far
Quiet == pc \in {"returned", "panic"} \/ (pc = "read" /\ rx = <<>>)

\* C1: when the frames after the hello are a sequence M1, M2*, M3 and the client has
\* been through them, the reads have given a no-op for every chunk but the last and
\* for the last one SetClipboard with the parse of the bodies of the mark=2 and mark=3
\* chunks in order (the text TEST for the bodies of the scenario)
C1_OneSetClipboardPerSequence ==
    LET fs == Tail(sent) IN
    /\ log # <<>> /\ log[1].st = "ok" /\ Quiet
    /\ ClipSequence(fs)
    => /\ Len(log) >= 1 + Len(fs)
       /\ \A i \in 1..Len(fs) :
            /\ log[i + 1].st = "ok"
            /\ log[i + 1].packet =
                 IF i < Len(fs) THEN Pkt("ClientNoOp", <<>>)
                 ELSE Pkt("SetClipboard",
                          <<fs[1][9], parse_clipboard(Bodies(fs, Len(fs))).data>>)
       /\ Bodies(fs, Len(fs)) = U32BE(16) \o U32BE(1) \o U32BE(0) \o U32BE(4) \o TEST
            => log[1 + Len(fs)].packet.args[2].text = <<84, 69, 83, 84>>

----------------------------------------------------------------------------
(* SpecLeave: the dispatch loop on key-down and button-down frames and      *)
(* CursorLeave, with gadget files whose writes may fail.                    *)

MaxLeaveFrames == 4

LeaveFrames ==
    { Frame(DKDN, U16BE(65) \o U16BE(0) \o U16BE(0)),
      Frame(DKDN, U16BE(kKeyShift_L) \o U16BE(0) \o U16BE(1)),
      Frame(DKDN, U16BE(kKeyAudioMute) \o U16BE(0) \o U16BE(1)),
      Frame(DMDN, <<1>>),
      Frame(COUT, <<>>) }

InitLeave ==
    pc = "read" /\ StartInit({TEST}, {NoStage}) /\ ActuatorNew({<<1920, 1080>>}, {FALSE})
        /\ sup = NoSupervisor

NextLeave ==
    \/ ServerSend(LeaveFrames, MaxLeaveFrames) /\ UNCHANGED sup
    \/ ServerClose /\ UNCHANGED sup
    \/ ReadPacket /\ UNCHANGED sup
    \/ Dispatch(BOOLEAN, {FALSE}) /\ UNCHANGED sup

SpecLeave == InitLeave /\ [][NextLeave]_vars

Zeros(n) == [i \in 1..n |-> 0]

ZeroReports ==
    <<[kind |-> "Keyboard", bytes |-> Zeros(8)],
      [kind |-> "Mouse", bytes |-> Zeros(7)],
      [kind |-> "Consumer", bytes |-> Zeros(2)]>>

\* C4: after the loop has dispatched a CursorLeave, whatever events preceded it, the
\* synthesizer holds all-zero keyboard, mouse and consumer reports, and the reports
\* that actuator.leave() wrote to the sink are the 8, 7 and 2 zero bytes (nothing is
\* written, and the token is cancelled, when the gadget files fail)
C4_LeaveClearsReports ==
    hist.op = "leave" =>
        /\ \E i \in 1..Len(calls) : calls[i] = Call("leave", <<>>)
        /\ hid.keyboard_report = KeyboardReportDefault
        /\ hid.mouse_report = MouseReportDefault
        /\ hid.consumer_report = 0
        /\ \/ hist.written = ZeroReports /\ sink = [Keyboard |-> Zeros(8), Mouse |-> Zeros(7), Consumer |-> Zeros(2)]
           \/ hist.written = <<>> /\ token

C4_Witness ==
    /\ pc = "read" /\ log # <<>> /\ log[Len(log)].packet = Pkt("CursorLeave", <<>>)
    /\ hist.op = "leave" /\ hist.args = <<TRUE>> /\ hist.written = ZeroReports

----------------------------------------------------------------------------
(* SpecStage: PacketStream::read and the body of the loop from every stage  *)
(* of the reassembler, on DCLP chunks of every mark.                        *)

MaxChunks == 2

TextBlob == U32BE(16) \o U32BE(1) \o U32BE(0) \o U32BE(4) \o TEST

Stages ==
    {NoStage, Stage(1, 1, <<>>), Stage(2, 1, <<>>), Stage(2, 1, TextBlob),
     Stage(3, 1, TextBlob)}

ChunkBodies == {<<>>, U32BE(1) \o <<52>>, Frame(CALV, <<>>)}

StageFrames ==
    {DclpFrame(0, 7, mark, body) : mark \in 0..4, body \in ChunkBodies}
        \cup {Frame(CALV, <<>>)}

InitStage ==
    pc = "read" /\ StartInit({TEST}, Stages) /\ ActuatorNew({<<1920, 1080>>}, {FALSE})
        /\ sup = NoSupervisor

NextStage ==
    \/ ServerSend(StageFrames, MaxChunks) /\ UNCHANGED sup
    \/ ServerClose /\ UNCHANGED sup
    \/ ReadPacket /\ UNCHANGED sup
    \/ Dispatch({FALSE}, {FALSE}) /\ UNCHANGED sup

SpecStage == InitStage /\ [][NextStage]_vars

\* the mark is no legal successor of the stage
Illegal(stage, mark) ==
    \/ mark = 1 /\ stage.stage \in {1, 2}
    \/ mark \in {2, 3} /\ stage.stage \in {0, 3}
    \/ mark \notin {1, 2, 3}

\* entry i of the log is the read of a chunk that was illegal in the stage it found
IllegalChunk(i) ==
    /\ i \in 1..Len(log)
    /\ Len(log[i].frame) >= 14 /\ SubSeq(log[i].frame, 5, 8) = DCLP
    /\ Illegal(log[i].from, log[i].frame[14])

\* C2: the read of a DCLP chunk whose mark is illegal in the current stage returns a
\* packet that is no error and no SetClipboard and leaves the stage None; the body of
\* the loop then calls nothing, writes nothing, and goes back to the read
C2_IllegalChunkResets ==
    /\ [](\A i \in 1..Len(log) :
            IllegalChunk(i) =>
                /\ log[i].st = "ok"
                /\ log[i].packet.tag # "SetClipboard"
                /\ IF i < Len(log) THEN log[i + 1].from = NoStage
                   ELSE clipboard_stage = NoStage /\ pc \in {"dispatch", "read"})
    /\ [][pc = "dispatch" /\ IllegalChunk(Len(log))
            => /\ pc' \in {"dispatch", "read"}
               /\ calls' = calls /\ tx' = tx /\ result' = "none"]_vars

C2_Witness ==
    /\ pc = "read" /\ Len(log) = 2 /\ result = "none"
    /\ IllegalChunk(1) /\ log[1].from = Stage(2, 1, TextBlob) /\ log[1].frame[14] = 1
    /\ log[2].st = "ok" /\ log[2].packet.tag = "KeepAlive"

\* the stage that the read of log entry i left
StageAfter(i) == IF i < Len(log) THEN log[i + 1].from ELSE clipboard_stage

\* C20: the read of a DCLP frame of declared length L >= 10 takes the whole frame off
\* the stream, so that the next read starts at the next frame, and the L - 10 bytes
\* after the mark are the body the reassembler gets (a mark=2 chunk in stage Mark1 or
\* Mark2 appends exactly those bytes to the accumulator)
C20_ChunkBodyAllRemainingBytes ==
    log # <<>> /\ IsChunk(sent[1]) /\ log[1].st = "ok" =>
        /\ log[1].frame = sent[1]
        /\ sent[1][14] = 2 /\ log[1].from.stage \in {1, 2}
             => StageAfter(1).data = log[1].from.data \o SubSeqFrom(sent[1], 15)

----------------------------------------------------------------------------
(* SpecCodec: PacketStream::read of one frame, then Packet::write_wire of   *)
(* the packet read.                                                         *)

MaxField == 2

CodecFields == 0..MaxField \cup {255, 256, 1080, 1920, 65535}

CodecFrames ==
    {Frame(t, <<>>) : t \in {CNOP, CIAK, CALV, EUNK, QINF}}
        \cup {Frame(DMMV, U16BE(x) \o U16BE(y)) : x, y \in CodecFields}
        \cup {Frame(DINF, U16BE(0) \o U16BE(0) \o U16BE(w) \o U16BE(h) \o U16BE(0)
                            \o U16BE(0) \o U16BE(0)) : w, h \in CodecFields}

InitCodec ==
    /\ pc = "read" /\ rx \in CodecFrames /\ sent = <<rx>>
    /\ rxClosed = FALSE /\ tx = <<>> /\ clipboard_stage = NoStage /\ packet = NoPacket
    /\ log = <<>> /\ calls = <<>> /\ device_name = TEST /\ result = "none"
    /\ ActuatorNew({<<1920, 1080>>}, {FALSE})
    /\ sup = NoSupervisor

\* PacketStream::write of the packet just read
WritePacket ==
    /\ pc = "dispatch"
    /\ tx' = tx \o write_wire(packet).bytes
    /\ pc' = IF write_wire(packet).panic THEN "panic" ELSE "written"
    /\ UNCHANGED <<rx, rxClosed, sent, clipboard_stage, packet, log, calls, device_name,
                   result, width, height, flip_mouse_wheel, hid, act, sink, token, hist>>

NextCodec ==
    \/ ReadPacket /\ UNCHANGED sup
    \/ WritePacket /\ UNCHANGED sup

SpecCodec == InitCodec /\ [][NextCodec]_vars

\* C5: a well-formed frame of CNOP, CIAK, CALV, DINF, DMMV, EUNK or QINF is read as a
\* packet, and writing that packet gives the bytes of the frame
C5_EncodeDecode ==
    /\ pc \notin {"panic", "returned"}
    /\ pc = "written" => tx = sent[1]

----------------------------------------------------------------------------
(* SpecOrder: the dispatch loop on key-downs and key-ups of two letters on  *)
(* two button slots.                                                        *)

MaxOrderFrames == 4

OrderFrames ==
    { Frame(DKDN, U16BE(65) \o U16BE(0) \o U16BE(0)),
      Frame(DKDN, U16BE(66) \o U16BE(0) \o U16BE(1)),
      Frame(DKUP, U16BE(65) \o U16BE(0) \o U16BE(0)),
      Frame(DKUP, U16BE(66) \o U16BE(0) \o U16BE(1)) }

InitOrder ==
    pc = "read" /\ StartInit({TEST}, {NoStage}) /\ ActuatorNew({<<1920, 1080>>}, {FALSE})
        /\ sup = NoSupervisor

NextOrder ==
    \/ ServerSend(OrderFrames, MaxOrderFrames) /\ UNCHANGED sup
    \/ ServerClose /\ UNCHANGED sup
    \/ ReadPacket /\ UNCHANGED sup
    \/ Dispatch({FALSE}, {FALSE}) /\ UNCHANGED sup

SpecOrder == InitOrder /\ [][NextOrder]_vars

\* the usages of the keys held, in the order they were pressed
HeldInOrder(h) == [i \in 1..Len(h.order) |-> synergy_to_hid(h.down[h.order[i]]).code]

\* the last call was a key event and its report lists the keys held in press order
ListsHeldKeys ==
    /\ Len(hist.order) <= 6
    /\ hid.keyboard_report.keycode = PadKeys(HeldInOrder(hist))
    /\ hist.written = <<[kind |-> "Keyboard",
                         bytes |-> <<0, 0>> \o PadKeys(HeldInOrder(hist))]>>

KeyEvent == hist.op \in {"key_down", "key_up"}

\* C11 as stated: after every key-down and key-up of a mapped non-modifier key, in any
\* sequence, bytes 2..7 of the emitted keyboard report list exactly the keys held, in
\* the order they were pressed, packed from byte 2
C11_HeldKeysInPressOrder == KeyEvent => ListsHeldKeys

\* C11: in a sequence where every key-down comes on a free slot with a key not already
\* held and every key-up on a slot that holds a key-down, bytes 2..7 of every emitted
\* keyboard report list exactly the keys held, in the order they were pressed, packed
\* from byte 2; a release compacts the list and keeps the order of the others
C11_MatchedKeysInPressOrder == KeyEvent /\ hist.matching => ListsHeldKeys

\* down A, down B, up A: B is in slot 1
C11_Witness ==
    /\ hist.op = "key_up" /\ hist.matching /\ hist.order = <<1>> /\ hist.down[1] = 66
    /\ Len(calls) = 3 /\ calls[1].op = "key_down" /\ calls[1].args[1] = 65
    /\ hid.keyboard_report.keycode = <<HID_KEY_A + 1, 0, 0, 0, 0, 0>>

----------------------------------------------------------------------------
(* SpecRelease: the dispatch loop on key-downs of a letter, a modifier and  *)
(* a consumer key, and key-ups that name another key or an unmapped id.     *)

MaxReleaseFrames == 3

ReleaseFrames ==
    { Frame(DKDN, U16BE(65) \o U16BE(0) \o U16BE(0)),
      Frame(DKDN, U16BE(kKeyShift_L) \o U16BE(0) \o U16BE(0)),
      Frame(DKDN, U16BE(kKeyAudioMute) \o U16BE(0) \o U16BE(0)),
      Frame(DKDN, U16BE(66) \o U16BE(0) \o U16BE(1)),
      Frame(DKUP, U16BE(66) \o U16BE(0) \o U16BE(0)),
      Frame(DKUP, U16BE(0) \o U16BE(0) \o U16BE(0)) }

InitRelease ==
    pc = "read" /\ StartInit({TEST}, {NoStage}) /\ ActuatorNew({<<1920, 1080>>}, {FALSE})
        /\ sup = NoSupervisor

NextRelease ==
    \/ ServerSend(ReleaseFrames, MaxReleaseFrames) /\ UNCHANGED sup
    \/ ServerClose /\ UNCHANGED sup
    \/ ReadPacket /\ UNCHANGED sup
    \/ Dispatch({FALSE}, {FALSE}) /\ UNCHANGED sup

SpecRelease == InitRelease /\ [][NextRelease]_vars

\* the usage `code` is in neither the keyboard report nor the consumer report of h
Released(h, code) ==
    IF code.kind = "Key"
    THEN IF IsModifier(code.code)
         THEN ~HasBit(h.keyboard_report.modifier, ModifierBit(code.code))
         ELSE \A i \in 1..6 : h.keyboard_report.keycode[i] # code.code
    ELSE code.kind = "Consumer" => h.consumer_report # code.code

\* C12: when the loop dispatches a key-up on a slot b whose last event was a key-down
\* of id1, the usage mapped from id1 is in no report afterwards and server_buttons[b]
\* is 0, whatever id the key-up carries
C12_KeyUpReleasesRecordedKey ==
    [][pc = "dispatch" /\ packet.tag = "KeyUp" /\ pc' = "read"
         /\ hist.down[packet.args[3]] >= 0
       => /\ Released(hid', synergy_to_hid(hist.down[packet.args[3]]))
          /\ hid'.server_buttons[packet.args[3]] = 0]_vars

\* down 'A' on slot 0, down 'B' on slot 1, then a key-up on slot 0 that names 'B'
C12_Witness ==
    /\ Len(calls) = 3
    /\ calls[1] = Call("key_down", <<65, 0, 0>>)
    /\ calls[2] = Call("key_down", <<66, 0, 1>>)
    /\ calls[3] = Call("key_up", <<66, 0, 0>>)
    /\ hid.keyboard_report.keycode = <<HID_KEY_A + 1, 0, 0, 0, 0, 0>>
    /\ hid.server_buttons[0] = 0

\* the loop is dispatching a key event of the given kind and completes it
Dispatches(tag) == pc = "dispatch" /\ packet.tag = tag /\ pc' = "read"

\* C29: a key-down whose id maps to Consumer(u) emits the 2-byte Consumer report with
\* the low byte of u first, then the high byte, and leaves the keyboard report as it
\* was; the key-up on that slot emits the Consumer report 00 00
C29_ConsumerReportLittleEndian ==
    /\ [][Dispatches("KeyDown") /\ synergy_to_hid(packet.args[1]).kind = "Consumer"
            => /\ hist'.written =
                    <<[kind |-> "Consumer",
                       bytes |-> <<synergy_to_hid(packet.args[1]).code % 256,
                                   synergy_to_hid(packet.args[1]).code \div 256>>]>>
               /\ hid'.keyboard_report = hid.keyboard_report]_vars
    /\ [][Dispatches("KeyUp") /\ hist.down[packet.args[3]] >= 0
            /\ synergy_to_hid(hist.down[packet.args[3]]).kind = "Consumer"
            => /\ hist'.written = <<[kind |-> "Consumer", bytes |-> <<0, 0>>]>>
               /\ hid'.keyboard_report = hid.keyboard_report]_vars

\* C24: when the loop dispatches a key-up on a slot that holds no recorded key-down
\* (server_buttons[button] = 0), the report emitted and written is the Keyboard report
\* of 8 zero bytes, whatever id the key-up carries and whatever keys are held
C24_StrayKeyUpClearsReport ==
    [][pc = "dispatch" /\ packet.tag = "KeyUp" /\ pc' = "read"
         /\ hid.server_buttons[packet.args[3]] = 0
       => /\ hist'.written = <<[kind |-> "Keyboard", bytes |-> Zeros(8)]>>
          /\ sink'.Keyboard = Zeros(8)
          /\ hid'.keyboard_report = KeyboardReportDefault]_vars

\* down 'B' on slot 1, then a key-up on the empty slot 0: 'B' is gone from the report
C24_Witness ==
    /\ calls = <<Call("key_down", <<66, 0, 1>>), Call("key_up", <<66, 0, 0>>)>>
    /\ hid.server_buttons[1] = 66
    /\ hist.written = <<[kind |-> "Keyboard", bytes |-> Zeros(8)]>>

----------------------------------------------------------------------------
(* barpi/src/main.rs: the supervisor. main_task calls start() in a loop;    *)
(* the signal task cancels the token; the join task waits for the token or  *)
(* for main_task, and main() then unregisters the gadget and returns.       *)
(* `pc` also names the supervisor's position: "connect" (start() awaits the *)
(* TCP connect), "sleep" (the reconnect sleep), "joined" (the join task is  *)
(* done), "exit" (main() has returned).                                     *)

\* Duration::from_secs(1) of the reconnect sleep
ReconnectSecs == 1

\* silence, in heartbeat intervals, after which the server counts as gone
SilenceLimit == 3

MaxSignals == 2

MaxSupFrames == 2

SupFrames ==
    { Frame(CALV, <<>>),
      Frame(DKDN, U16BE(65) \o U16BE(0) \o U16BE(0)),
      Frame(DKDN, U16BE(65) \o U16BE(0) \o U16BE(NumServerButtons)) }

\* the await points of main_task, where the join task can see the token: the connect
\* and the socket reads of start(); std::thread::sleep is no await point
AtAwait == pc \in {"connect", "hello", "read"}

SessionSame ==
    UNCHANGED <<rx, rxClosed, tx, sent, clipboard_stage, packet, log, calls,
                device_name, result>>

ActuatorSame == UNCHANGED <<width, height, flip_mouse_wheel, hid, act, sink, hist>>

\* TcpStream::connect in start() completes or fails
ConnectDone ==
    /\ pc = "connect"
    /\ \E ok \in BOOLEAN :
         IF ok THEN pc' = "hello" /\ result' = result
         ELSE pc' = "returned" /\ result' = "IoError"
    /\ UNCHANGED <<rx, rxClosed, tx, sent, clipboard_stage, packet, log, calls,
                   device_name, token, sup>>
    /\ ActuatorSame

\* a loop that calls start() again as soon as it has returned
ReturnedNoWait ==
    /\ pc = "returned" /\ result # "none"
    /\ pc' = "connect"
    /\ rx' = <<>> /\ rxClosed' = FALSE /\ tx' = <<>> /\ sent' = <<>>
    /\ clipboard_stage' = NoStage /\ packet' = NoPacket /\ log' = <<>> /\ calls' = <<>>
    /\ result' = "none"
    /\ UNCHANGED <<device_name, token, sup>>
    /\ ActuatorSame

\* the match on the value of start(): Err(e) is logged and the thread sleeps
Returned ==
    /\ pc = "returned" /\ result # "none"
    /\ IF result = "Ok"
       THEN /\ pc' = "connect"
            /\ rx' = <<>> /\ rxClosed' = FALSE /\ tx' = <<>> /\ sent' = <<>>
            /\ clipboard_stage' = NoStage /\ packet' = NoPacket /\ log' = <<>>
            /\ calls' = <<>> /\ result' = "none" /\ sup' = sup
       ELSE /\ pc' = "sleep"
            /\ sup' = [sup EXCEPT !.slept = 0]
            /\ UNCHANGED <<rx, rxClosed, tx, sent, clipboard_stage, packet, log, calls,
                           result>>
    /\ UNCHANGED <<device_name, token>>
    /\ ActuatorSame

\* a second of the reconnect sleep goes by
SleepTick ==
    /\ pc = "sleep" /\ sup.slept < ReconnectSecs
    /\ sup' = [sup EXCEPT !.slept = @ + 1]
    /\ UNCHANGED <<pc, token>>
    /\ SessionSame /\ ActuatorSame

\* the sleep is over and the loop calls start() again, up to its connect
Retry ==
    /\ pc = "sleep" /\ sup.slept >= ReconnectSecs
    /\ pc' = "connect"
    /\ rx' = <<>> /\ rxClosed' = FALSE /\ tx' = <<>> /\ sent' = <<>>
    /\ clipboard_stage' = NoStage /\ packet' = NoPacket /\ log' = <<>> /\ calls' = <<>>
    /\ result' = "none"
    /\ sup' = [sup EXCEPT !.idle = 0]
    /\ UNCHANGED <<device_name, token>>
    /\ ActuatorSame

\* a heartbeat interval goes by while the loop waits for a frame and none arrives
SilentTick ==
    /\ pc = "read" /\ rx = <<>> /\ ~rxClosed /\ sup.idle < SilenceLimit
    /\ sup' = [sup EXCEPT !.idle = @ + 1]
    /\ UNCHANGED <<pc, token>>
    /\ SessionSame /\ ActuatorSame

\* the signal task: SIGTERM, SIGINT or SIGHUP arrives and the token is cancelled
Signal ==
    /\ pc # "exit" /\ sup.fired < MaxSignals
    /\ token' = TRUE
    /\ sup' = [sup EXCEPT !.fired = @ + 1]
    /\ pc' = pc
    /\ SessionSame /\ ActuatorSame

\* the join task ends: the token is cancelled and main_task is at an await, or
\* main_task has panicked; main_task and its socket are dropped
JoinDone ==
    /\ (token /\ AtAwait) \/ pc = "panic"
    /\ pc' = "joined"
    /\ UNCHANGED <<token, sup>>
    /\ SessionSame /\ ActuatorSame

\* main() after the join: unreg(reg) and return
Exit ==
    /\ pc = "joined"
    /\ pc' = "exit"
    /\ UNCHANGED <<token, sup>>
    /\ SessionSame /\ ActuatorSame

InitSupervisor ==
    /\ pc = "connect" /\ StartInit({TEST}, {NoStage})
    /\ ActuatorNew({<<1920, 1080>>}, {FALSE})
    /\ sup = NoSupervisor

MainTask ==
    \/ ConnectDone
    \/ Hello({FALSE}) /\ UNCHANGED sup
    \/ ReadPacket /\ UNCHANGED sup
    \/ Dispatch(BOOLEAN, BOOLEAN) /\ UNCHANGED sup
    \/ Returned
    \/ SleepTick
    \/ Retry

NextSupervisor ==
    \/ ServerHello({HelloFrame(1, 6)}) /\ UNCHANGED sup
    \/ ServerSend(SupFrames, MaxSupFrames) /\ sup' = [sup EXCEPT !.idle = 0]
    \/ ServerClose /\ UNCHANGED sup
    \/ ConnectDone
    \/ Hello({FALSE}) /\ UNCHANGED sup
    \/ ReadPacket /\ UNCHANGED sup
    \/ Dispatch(BOOLEAN, BOOLEAN) /\ UNCHANGED sup
    \/ Returned
    \/ SleepTick
    \/ Retry
    \/ SilentTick
    \/ Signal
    \/ JoinDone
    \/ Exit

SpecSupervisor == InitSupervisor /\ [][NextSupervisor]_vars

\* the runtime polls main_task and the join task whenever they can run, and time passes
SpecSupervisorFair ==
    SpecSupervisor /\ WF_vars(MainTask) /\ WF_vars(SilentTick)
        /\ WF_vars(JoinDone) /\ WF_vars(Exit)

\* main_task goes from anywhere else to the connect of a new start()
NewAttempt == pc # "connect" /\ pc' = "connect"

\* C14: a new connection attempt is made only out of a reconnect sleep that has lasted
\* at least one second; when start() has returned the supervisor does nothing but
\* enter that sleep; and unless the token is cancelled, a return of start() is
\* followed by a new connection attempt
C14_WaitThenReconnect ==
    /\ [][NewAttempt => pc = "sleep" /\ sup.slept >= ReconnectSecs]_vars
    /\ [][pc = "returned" /\ pc' # "returned" => pc' = "sleep" /\ sup'.slept = 0]_vars
    /\ ((pc = "returned" /\ ~token) ~> (pc = "connect" \/ token))

\* a reconnect after a session in which a key went down, with no cancellation
C14_Witness ==
    /\ pc = "connect" /\ sup.slept = ReconnectSecs /\ ~token
    /\ hid.keyboard_report.keycode[1] = HID_KEY_A

\* C15: once the token is cancelled no new connection attempt is started and main()
\* eventually returns, wherever main_task is when the signal arrives
C15_CancelEndsSupervisor ==
    /\ [][token => ~NewAttempt]_vars
    /\ (token ~> pc = "exit")

\* a write to a gadget file has failed (the token is cancelled and no signal has come)
SinkFailed == token /\ sup.fired = 0

\* C16: after a failed write of a report the process does not end: the join task does
\* not finish, main() does not return, and a new connection attempt follows
C16_WriteFailureReconnects ==
    /\ [](SinkFailed => pc \notin {"joined", "exit"})
    /\ (SinkFailed ~> pc = "connect")

\* C18: when the loop has waited for a frame through three heartbeat intervals of
\* silence, the session ends: start() returns and the supervisor goes on to reconnect
\* (unless the token is cancelled first)
C18_SilenceEndsSession ==
    (pc = "read" /\ sup.idle >= SilenceLimit /\ ~token)
        ~> (pc \in {"returned", "sleep", "connect"} \/ token)

\* C19: when main() returns after a cancellation, the last report written to each
\* gadget file that was written at all is the zero report, so no key or button that
\* was held stays down
C19_CancelWritesZeroReports ==
    pc = "exit" /\ token =>
        /\ sink.Keyboard \in {<<>>, Zeros(8)}
        /\ sink.Mouse \in {<<>>, Zeros(7)}
        /\ sink.Consumer \in {<<>>, Zeros(2)}

----------------------------------------------------------------------------
(* SpecTrailing: the dispatch loop on frames that are longer than their     *)
(* tag and fields, and on frames with a tag do_read has no arm for.         *)

MaxTrailFrames == 3

XTAG == <<88, 84, 65, 71>>

TrailFrames ==
    { Frame(CALV, <<1, 2>>),
      Frame(DMMV, U16BE(3) \o U16BE(4) \o <<9>>),
      Frame(DKDN, U16BE(65) \o U16BE(0) \o U16BE(0) \o Frame(CALV, <<>>)),
      Frame(XTAG, <<>>),
      Frame(XTAG, [i \in 1..17 |-> i]),
      Frame(CNOP, <<>>),
      DclpFrame(0, 7, 0, <<1, 2, 3>>) }

InitTrailing ==
    pc = "read" /\ StartInit({TEST}, {NoStage}) /\ ActuatorNew({<<1920, 1080>>}, {FALSE})
        /\ sup = NoSupervisor

NextTrailing ==
    \/ ServerSend(TrailFrames, MaxTrailFrames) /\ UNCHANGED sup
    \/ ServerClose /\ UNCHANGED sup
    \/ ReadPacket /\ UNCHANGED sup
    \/ Dispatch({FALSE}, {FALSE}) /\ UNCHANGED sup

SpecTrailing == InitTrailing /\ [][NextTrailing]_vars

TagOf(f) == SubSeq(f, 5, 8)

\* the values of the fields of the given widths that frame f holds from offset pos
RECURSIVE FieldsAt(_, _, _)
FieldsAt(f, pos, widths) ==
    IF widths = <<>> THEN <<>>
    ELSE <<FromBE(SubSeq(f, pos + 1, pos + Head(widths)))>>
           \o FieldsAt(f, pos + Head(widths), Tail(widths))

\* the variant that frame f stands for: its tag with the fields that follow it
VariantOf(f) == PacketOf(TagOf(f), FieldsAt(f, 8, FieldWidths(TagOf(f))))

\* the i-th read took exactly the i-th frame and returned its variant
ReadsFrame(i) ==
    /\ log[i].st = "ok"
    /\ log[i].frame = sent[i]
    /\ TagOf(sent[i]) # DCLP => log[i].packet = VariantOf(sent[i])

\* C21: every read of a frame that is longer than its tag and fixed fields, or whose
\* tag is not recognised, takes exactly the declared length off the stream and returns
\* the variant (Unknown(tag) for an unrecognised tag), so that the next read starts at
\* the first byte of the next frame; after Unknown the loop goes back to the read
\* without a call and without returning
C21_TrailingBytesDiscarded ==
    /\ [](\A i \in 1..Min(Len(log), Len(sent)) : ReadsFrame(i))
    /\ [][pc = "dispatch" /\ packet.tag = "Unknown"
            => pc' = "read" /\ calls' = calls /\ tx' = tx /\ result' = "none"]_vars

\* the same for the frames that are no DCLP chunk and follow no DCLP chunk
ReadsFramesBeforeAnyChunk ==
    \A i \in 1..Min(Len(log), Len(sent)) :
        (\A j \in 1..i : TagOf(sent[j]) # DCLP) => ReadsFrame(i)

----------------------------------------------------------------------------
(* SpecShort: the supervisor and a session whose server sends frames with a *)
(* declared length below 4.                                                 *)

MaxShortFrames == 3

ShortFrames ==
    { U32BE(0),
      U32BE(3) \o <<67, 65, 76>>,
      Frame(CALV, <<>>),
      Frame(DKDN, U16BE(65) \o U16BE(0) \o U16BE(0)) }

NextShort ==
    \/ ServerHello({HelloFrame(1, 6)}) /\ UNCHANGED sup
    \/ ServerSend(ShortFrames, MaxShortFrames) /\ sup' = [sup EXCEPT !.idle = 0]
    \/ ServerClose /\ UNCHANGED sup
    \/ ConnectDone
    \/ Hello({FALSE}) /\ UNCHANGED sup
    \/ ReadPacket /\ UNCHANGED sup
    \/ Dispatch({FALSE}, {FALSE}) /\ UNCHANGED sup
    \/ Returned
    \/ SleepTick
    \/ Retry
    \/ SilentTick
    \/ Signal
    \/ JoinDone
    \/ Exit

SpecShort == InitSupervisor /\ [][NextShort]_vars

\* the runtime polls main_task and the join task whenever they can run, and time passes
SpecShortFair ==
    SpecShort /\ WF_vars(MainTask) /\ WF_vars(SilentTick)
        /\ WF_vars(JoinDone) /\ WF_vars(Exit)

\* the declared length of frame f is below 4
IsShort(f) == FromBE(SubSeq(f, 1, 4)) < 4

\* the read of the i-th frame of the connection (the hello is the first) ended the
\* session with PacketTooSmall: no packet, nothing dispatched, disconnected() called
EndsTooSmall(i) ==
    /\ Len(log) = i
    /\ log[i].st = "PacketTooSmall" /\ log[i].frame = sent[i] /\ log[i].packet = NoPacket
    /\ packet = NoPacket
    /\ pc \in {"returned", "sleep"}
    /\ result = "Disconnected"
    /\ calls[Len(calls)] = Call("disconnected", <<>>)
    /\ Disconnects = 1

\* start() has just returned from the read of a frame with a declared length below 4
ShortFrameRead ==
    pc = "returned" /\ log # <<>> /\ log[Len(log)].st = "PacketTooSmall"

\* C22: the read of a frame whose declared length is below 4 returns PacketTooSmall and
\* no packet; the loop ends there, actor.disconnected() is called once and start()
\* returns; and the supervisor then starts a new connection attempt (unless the token
\* has been cancelled)
C22_ShortFrameEndsSession ==
    /\ [](\A i \in 2..Min(Len(log), Len(sent)) : IsShort(sent[i]) => EndsTooSmall(i))
    /\ ((ShortFrameRead /\ ~token) ~> (pc = "connect" \/ token))

\* a key-down was dispatched, then the frame 00000003 43414C ended the session, and the
\* supervisor has slept its second before the next start()
C22_Witness ==
    /\ pc = "sleep" /\ ~token /\ sup.slept = ReconnectSecs
    /\ Len(log) = 3 /\ Len(sent) >= 3 /\ sent[3] = U32BE(3) \o <<67, 65, 76>> /\ log[3].st = "PacketTooSmall"
    /\ calls = <<Call("connected", <<>>), Call("key_down", <<65, 0, 0>>),
                 Call("disconnected", <<>>)>>

----------------------------------------------------------------------------
(* SpecBlob: the read of the closing mark=3 chunk of a transfer, and the    *)
(* body of the loop, for accumulated blobs that are well formed, carry an   *)
(* unknown format id, or end early.                                         *)

MaxBlobFrames == 2

TE == <<84, 69>>

Blobs ==
    { TextBlob,
      U32BE(28) \o U32BE(2) \o U32BE(0) \o U32BE(4) \o TEST \o U32BE(1) \o U32BE(0),
      U32BE(16) \o U32BE(1) \o U32BE(3) \o U32BE(4) \o TEST,
      U32BE(28) \o U32BE(2) \o U32BE(0) \o U32BE(4) \o TEST \o U32BE(7) \o U32BE(0),
      U32BE(16) \o U32BE(1) \o U32BE(0) \o U32BE(4) \o TE,
      U32BE(16) \o U32BE(1) \o U32BE(2) \o U32BE(4),
      U32BE(16) \o U32BE(2) \o U32BE(0) \o U32BE(4) \o TEST,
      U32BE(16) \o U32BE(2) \o U32BE(0) \o U32BE(4) \o TE,
      U32BE(16) \o U32BE(1) \o U32BE(0) \o <<0, 0>>,
      U32BE(16) \o <<0, 0>>,
      <<>> }

BlobFrames == {DclpFrame(0, 7, 3, <<>>), Frame(CALV, <<>>)}

InitBlob ==
    pc = "read" /\ StartInit({TEST}, {Stage(n, 1, b) : n \in {1, 2}, b \in Blobs})
        /\ ActuatorNew({<<1920, 1080>>}, {FALSE})
        /\ sup = NoSupervisor

NextBlob ==
    \/ ServerSend(BlobFrames, MaxBlobFrames) /\ UNCHANGED sup
    \/ ServerClose /\ UNCHANGED sup
    \/ ReadPacket /\ UNCHANGED sup
    \/ Dispatch({FALSE}, {FALSE}) /\ UNCHANGED sup

SpecBlob == InitBlob /\ [][NextBlob]_vars

\* what is wrong with the entries of blob buf from offset pos, n entries to come:
\* "short" when the blob ends inside an entry, "format" for a format id outside 0..2
RECURSIVE EntriesFault(_, _, _)
EntriesFault(buf, pos, n) ==
    IF n = 0 THEN "none"
    ELSE IF pos + 8 > Len(buf) THEN "short"
    ELSE IF FromBE(SubSeq(buf, pos + 1, pos + 4)) \notin {0, 1, 2} THEN "format"
    ELSE IF pos + 8 + FromBE(SubSeq(buf, pos + 5, pos + 8)) > Len(buf) THEN "short"
    ELSE EntriesFault(buf, pos + 8 + FromBE(SubSeq(buf, pos + 5, pos + 8)), n - 1)

\* a blob is u32 size, u32 num_formats, then num_formats entries (u32 format id,
\* u32 length, length bytes)
BlobFault(buf) ==
    IF Len(buf) < 8 THEN "short" ELSE EntriesFault(buf, 8, FromBE(SubSeq(buf, 5, 8)))

\* entry i of the log is the read of an empty mark=3 chunk in stage Mark1 or Mark2
ClosesTransfer(i) ==
    /\ Len(log[i].frame) = 14 /\ TagOf(log[i].frame) = DCLP /\ log[i].frame[14] = 3
    /\ log[i].from.stage \in {1, 2}

SetClipboardCalls == {i \in 1..Len(calls) : calls[i].op = "set_clipboard"}

----------------------------------------------------------------------------
(* SpecButtons: the dispatch loop on button-down and button-up frames of    *)
(* the three mapped buttons and of unmapped ones, with the cursor moved.    *)

MaxButtonFrames == 3

ButtonFrames ==
    {Frame(DMDN, <<b>>) : b \in {1, 2, 3, 4}}
        \cup {Frame(DMUP, <<b>>) : b \in {1, 2, 3, 255}}
        \cup {Frame(DMMV, U16BE(1) \o U16BE(2))}

InitButtons ==
    pc = "read" /\ StartInit({TEST}, {NoStage}) /\ ActuatorNew({<<1920, 1080>>}, {FALSE})
        /\ sup = NoSupervisor

NextButtons ==
    \/ ServerSend(ButtonFrames, MaxButtonFrames) /\ UNCHANGED sup
    \/ ServerClose /\ UNCHANGED sup
    \/ ReadPacket /\ UNCHANGED sup
    \/ Dispatch({FALSE}, {FALSE}) /\ UNCHANGED sup

SpecButtons == InitButtons /\ [][NextButtons]_vars

\* the calls so far that were events of server button b
ButtonEvents(b) ==
    {i \in 1..Len(calls) : calls[i].op \in {"mouse_down", "mouse_up"} /\ calls[i].args = <<b>>}

\* the last event of server button b was a down
ButtonDown(b) ==
    \E i \in ButtonEvents(b) :
        calls[i].op = "mouse_down" /\ \A j \in ButtonEvents(b) : j <= i

ButtonEvent == packet.tag \in {"MouseDown", "MouseUp"}

\* C25: after any sequence of MouseDown and MouseUp events, bits 0, 1 and 2 of byte 0
\* of the mouse report are set exactly when server button 1, 2 and 3 is down, and no
\* other bit is set (an event of another button changes nothing); a button event
\* emits the 7-byte mouse report with that byte 0 and leaves the coordinates as
\* they were
C25_ButtonBitsTrackButtons ==
    /\ [](/\ \A b \in 1..3 : HasBit(hid.mouse_report.buttons, 2 ^ (b - 1)) <=> ButtonDown(b)
          /\ hid.mouse_report.buttons \in 0..7)
    /\ [][pc = "dispatch" /\ ButtonEvent /\ pc' = "read"
            => /\ hid'.mouse_report.x = hid.mouse_report.x
               /\ hid'.mouse_report.y = hid.mouse_report.y
               /\ hist'.written = <<[kind |-> "Mouse", bytes |-> MouseBytes(hid'.mouse_report)]>>
               /\ sink'.Mouse[1] = hid'.mouse_report.buttons
               /\ sink.Mouse # <<>> => SubSeq(sink'.Mouse, 2, 5) = SubSeq(sink.Mouse, 2, 5)]_vars

\* the cursor was moved, button 3 went down, then an unmapped button went up
C25_Witness ==
    /\ Len(calls) = 3 /\ calls[1].op = "set_cursor_position"
    /\ calls[2] = Call("mouse_down", <<3>>) /\ calls[3] = Call("mouse_up", <<-1>>)
    /\ hid.mouse_report.buttons = 4 /\ hid.mouse_report.x # 0
    /\ sink.Mouse[1] = 4 /\ sink.Mouse[2] # 0

----------------------------------------------------------------------------
(* SpecWheel: the dispatch loop on MouseWheel frames whose deltas lie in    *)
(* and out of the i8 range, with the wheel flipped and not.                 *)

MaxWheelFrames == 2

\* x_delta / y_delta values as the u16 on the wire: 1, 120, 240, -128, 32767
WheelDeltas == {1, 120, 240, 65408, 32767}

WheelFrames == {Frame(DMWM, U16BE(dx) \o U16BE(dy)) : dx, dy \in WheelDeltas}

InitWheel ==
    pc = "read" /\ StartInit({TEST}, {NoStage}) /\ ActuatorNew({<<1920, 1080>>}, BOOLEAN)
        /\ sup = NoSupervisor

NextWheel ==
    \/ ServerSend(WheelFrames, MaxWheelFrames) /\ UNCHANGED sup
    \/ ServerClose /\ UNCHANGED sup
    \/ ReadPacket /\ UNCHANGED sup
    \/ Dispatch({FALSE}, {FALSE}) /\ UNCHANGED sup

SpecWheel == InitWheel /\ [][NextWheel]_vars

\* v limited to the range of an i8
ClampI8(v) == IF v > 127 THEN 127 ELSE IF v < -128 THEN -128 ELSE v

\* C26: for every MouseWheel(dx, dy) the loop dispatches, the call does not fault, the
\* pan field of the mouse report is dx clamped to [-128, 127] and the wheel field is
\* dy clamped to [-128, 127], negated (and still an i8) when flip_mouse_wheel is set;
\* the 7-byte report written carries both
C26_WheelClamped ==
    /\ pc # "panic"
    /\ hist.op = "mouse_wheel" =>
         LET dx == hist.args[1]
             dy == hist.args[2]
         IN  /\ hid.mouse_report.pan = ClampI8(dx)
             /\ hid.mouse_report.wheel =
                  (IF flip_mouse_wheel THEN ClampI8(-ClampI8(dy)) ELSE ClampI8(dy))
             /\ hist.written = <<[kind |-> "Mouse", bytes |-> MouseBytes(hid.mouse_report)]>>

----------------------------------------------------------------------------
(* SpecMove: the dispatch loop on relative MouseMove frames, from the       *)
(* origin and after an absolute move.                                       *)

MaxMoveFrames == 2

\* x / y deltas as the u16 on the wire: 0, 10, -1
MoveDeltas == {0, 10, 65535}

MoveFrames ==
    {Frame(DMRM, U16BE(dx) \o U16BE(dy)) : dx, dy \in MoveDeltas}
        \cup {Frame(DMMV, U16BE(100) \o U16BE(50))}

InitMove ==
    pc = "read" /\ StartInit({TEST}, {NoStage}) /\ ActuatorNew({<<1920, 1080>>}, {FALSE})
        /\ sup = NoSupervisor

NextMove ==
    \/ ServerSend(MoveFrames, MaxMoveFrames) /\ UNCHANGED sup
    \/ ServerClose /\ UNCHANGED sup
    \/ ReadPacket /\ UNCHANGED sup
    \/ Dispatch({FALSE}, {FALSE}) /\ UNCHANGED sup

SpecMove == InitMove /\ [][NextMove]_vars

\* C27: when the loop dispatches MouseMove(dx, dy) with the HID cursor at (cx, cy), the
\* cursor and the coordinates of the mouse report become (cx + dx) mod 2^16 and
\* (cy + dy) mod 2^16, with no further scaling, and that report is the one written
C27_RelativeMoveAddsToCursor ==
    [][pc = "dispatch" /\ packet.tag = "MouseMove" /\ pc' = "read"
       => /\ hid'.x = AsU16(hid.x + packet.args[1])
          /\ hid'.y = AsU16(hid.y + packet.args[2])
          /\ hid'.mouse_report.x = hid'.x /\ hid'.mouse_report.y = hid'.y
          /\ sink'.Mouse = MouseBytes(hid'.mouse_report)]_vars

----------------------------------------------------------------------------
(* SpecFull: the dispatch loop on a server that presses six letters, which  *)
(* fill the keyboard report, and then sends further key events.             *)

\* key slots of the boot keyboard report
ReportSlots == 6

MaxFullFrames == 9

\* the i-th frame the server sends: key-downs of 'A'..'F' first, then any of a
\* key-down of 'G', a key-down of left shift and key-ups on the two button slots
FullFramesAt(i) ==
    IF i <= ReportSlots THEN {Frame(DKDN, U16BE(64 + i) \o U16BE(0) \o U16BE(0))}
    ELSE { Frame(DKDN, U16BE(71) \o U16BE(0) \o U16BE(1)),
           Frame(DKDN, U16BE(kKeyShift_L) \o U16BE(0) \o U16BE(1)),
           Frame(DKUP, U16BE(71) \o U16BE(0) \o U16BE(1)),
           Frame(DKUP, U16BE(70) \o U16BE(0) \o U16BE(0)) }

InitFull ==
    pc = "read" /\ StartInit({TEST}, {NoStage}) /\ ActuatorNew({<<1920, 1080>>}, {FALSE})
        /\ sup = NoSupervisor

NextFull ==
    \/ ServerSend(FullFramesAt(Len(sent) + 1), MaxFullFrames) /\ UNCHANGED sup
    \/ ServerClose /\ UNCHANGED sup
    \/ ReadPacket /\ UNCHANGED sup
    \/ Dispatch({FALSE}, {FALSE}) /\ UNCHANGED sup

SpecFull == InitFull /\ [][NextFull]_vars

\* all six key slots of the report of h are taken
Full(h) == NonZeroSlots(h.keyboard_report) = ReportSlots

\* the usage is a non-modifier key
PlainKey(code) == code.kind = "Key" /\ ~IsModifier(code.code)

\* C30: with six non-modifier keys held, a further non-modifier key-down leaves
\* key1..key6 as they are and emits the unchanged report, and the key-up of a key
\* that is not in the report removes none of the six; at most six slots are ever
\* non-zero, and byte 1 of every emitted keyboard report is 0
C30_SeventhKeyDropped ==
    /\ [][Dispatches("KeyDown") /\ Full(hid) /\ PlainKey(synergy_to_hid(packet.args[1]))
            => /\ hid'.keyboard_report = hid.keyboard_report
               /\ hist'.written = <<[kind |-> "Keyboard",
                                     bytes |-> KeyboardBytes(hid.keyboard_report)]>>]_vars
    /\ [][Dispatches("KeyUp") /\ Full(hid)
            /\ PlainKey(synergy_to_hid(hid.server_buttons[packet.args[3]]))
            /\ (\A i \in 1..ReportSlots :
                  hid.keyboard_report.keycode[i]
                    # synergy_to_hid(hid.server_buttons[packet.args[3]]).code)
            => /\ hid'.keyboard_report = hid.keyboard_report
               /\ hist'.written = <<[kind |-> "Keyboard",
                                     bytes |-> KeyboardBytes(hid.keyboard_report)]>>]_vars
    /\ [](/\ Len(hid.keyboard_report.keycode) = ReportSlots
          /\ NonZeroSlots(hid.keyboard_report) <= ReportSlots
          /\ \A i \in 1..Len(hist.written) :
               hist.written[i].kind = "Keyboard"
                 => Len(hist.written[i].bytes) = 8 /\ hist.written[i].bytes[2] = 0)

\* 'A'..'F' are held, 'G' went down on slot 1 and up again: the report still lists
\* 'A'..'F'
C30_Witness ==
    /\ Len(calls) = 8
    /\ calls[7] = Call("key_down", <<71, 0, 1>>) /\ calls[8] = Call("key_up", <<71, 0, 1>>)
    /\ hid.keyboard_report.keycode = [i \in 1..6 |-> HID_KEY_A + i - 1]
    /\ sink.Keyboard = <<0, 0>> \o [i \in 1..6 |-> HID_KEY_A + i - 1]
    /\ hid.server_buttons[1] = 0

----------------------------------------------------------------------------
(* SpecClipOut: Packet::write_wire of a SetClipboard packet.                *)

MaxText == 3

CLIP == <<67, 76, 73, 80>>

\* slice::chunks(32768)
ChunkSize == 32768

\* the widths in bytes a usize can have in a build of the crate
UsizeBytes == {4, 8}

\* usize::to_be_bytes of n on a target whose usize has w bytes
RECURSIVE ToBE(_, _)
ToBE(n, w) == IF w = 0 THEN <<>> ELSE ToBE(n \div 256, w - 1) \o <<n % 256>>

\* format!("{}", n) as bytes
RECURSIVE DecimalDigits(_)
DecimalDigits(n) ==
    IF n < 10 THEN <<48 + n>> ELSE DecimalDigits(n \div 10) \o <<48 + (n % 10)>>

\* write_chunk on a target whose usize has w bytes
write_chunk(w, id, seq, mark, chunk) ==
    ToBE(4 + 6 + Len(chunk), w) \o write_str(CLIP) \o <<id>> \o U32BE(seq) \o <<mark>>
        \o chunk

\* the loop over data.raw_text().chunks(ChunkSize)
RECURSIVE WriteChunks(_, _, _, _)
WriteChunks(w, id, seq, text) ==
    IF text = <<>> THEN <<>>
    ELSE write_chunk(w, id, seq, 2, SubSeq(text, 1, Min(ChunkSize, Len(text))))
           \o WriteChunks(w, id, seq, SubSeqFrom(text, Min(ChunkSize, Len(text)) + 1))

\* the SetClipboard arm of Packet::write_wire
write_wire_SetClipboard(w, id, seq_num, data) ==
    IF data.text = <<>> THEN <<>>
    ELSE LET size_str == DecimalDigits(Len(data.text))
         IN  write_chunk(w, id, seq_num, 1, ToBE(Len(size_str), w) \o size_str)
               \o WriteChunks(w, id, seq_num, data.text)
               \o write_chunk(w, id, seq_num, 3, <<>>)

\* the texts of up to MaxText bytes over NUL and 'A'
RECURSIVE Texts(_)
Texts(n) == IF n = 0 THEN {<<>>} ELSE Texts(n - 1) \cup {t \o <<b>> : t \in Texts(n - 1), b \in {0, 65}}

ClipOutPackets ==
    {Pkt("SetClipboard", <<id, seq, [NoClipboard EXCEPT !.text = t]>>) :
        id \in {0, 1, 255}, seq \in {0, 1, 16909060}, t \in Texts(MaxText)}

InitClipOut ==
    /\ pc = "write" /\ packet \in ClipOutPackets
    /\ rx = <<>> /\ sent = <<>> /\ rxClosed = FALSE /\ tx = <<>>
    /\ clipboard_stage = NoStage /\ log = <<>> /\ calls = <<>> /\ device_name = TEST
    /\ result = "none"
    /\ ActuatorNew({<<1920, 1080>>}, {FALSE})
    /\ sup = NoSupervisor

\* Packet::write_wire(SetClipboard) to the socket, in a build of either usize width
WriteClipboard ==
    /\ pc = "write"
    /\ \E w \in UsizeBytes :
         tx' = tx \o write_wire_SetClipboard(w, packet.args[1], packet.args[2], packet.args[3])
    /\ pc' = "written"
    /\ UNCHANGED <<rx, rxClosed, sent, clipboard_stage, packet, log, calls, device_name,
                   result, width, height, flip_mouse_wheel, hid, act, sink, token, hist, sup>>

NextClipOut == WriteClipboard

SpecClipOut == InitClipOut /\ [][NextClipOut]_vars

\* one chunk as a frame: u32 length of what follows, tag, id, seq, mark, bytes
ChunkFrame(tag, id, seq, mark, chunk) == Frame(tag, <<id>> \o U32BE(seq) \o <<mark>> \o chunk)

\* the frames of a transfer of text: the mark=1 header with the size in decimal, the
\* text as one mark=2 chunk (texts here are shorter than ChunkSize), the mark=3 end
TransferFrames(tag, id, seq, text) ==
    ChunkFrame(tag, id, seq, 1, U32BE(Len(DecimalDigits(Len(text)))) \o DecimalDigits(Len(text)))
        \o ChunkFrame(tag, id, seq, 2, text)
        \o ChunkFrame(tag, id, seq, 3, <<>>)

\* C31: what write_wire(SetClipboard) writes is, for a non-empty text, the mark=1
\* header frame, the text in mark=2 frames and the mark=3 frame, each a 4-byte length
\* equal to 4 + 6 + len(chunk), a 4-byte tag, id, seq, mark and the chunk; for an
\* empty text nothing is written
C31_ClipboardChunksWellFormed ==
    pc = "written" =>
        IF packet.args[3].text = <<>> THEN tx = <<>>
        ELSE \E tag \in {DCLP, CLIP} :
               tx = TransferFrames(tag, packet.args[1], packet.args[2], packet.args[3].text)

----------------------------------------------------------------------------
(* The end of a session of SpecRelease.                                     *)

\* the last report of each kind that reached the host shows nothing pressed
HostReleased ==
    /\ sink.Keyboard \in {<<>>, Zeros(8)}
    /\ sink.Mouse = <<>> \/ sink.Mouse[1] = 0
    /\ sink.Consumer \in {<<>>, Zeros(2)}

\* C32: when the session has ended with actuator.disconnected(), the reports of the
\* synthesizer hold no key and no button, and the last keyboard, mouse and consumer
\* reports written to the sink are zero: nothing stays pressed on the host
C32_DisconnectReleasesAll ==
    pc = "returned" /\ calls # <<>> /\ calls[Len(calls)] = Call("disconnected", <<>>) =>
        /\ hid.keyboard_report = KeyboardReportDefault
        /\ hid.mouse_report.buttons = 0
        /\ hid.consumer_report = 0
        /\ HostReleased

----------------------------------------------------------------------------
(* SpecCarry: the supervisor and sessions whose server sends clipboard      *)
(* chunks and a key-down.                                                   *)

MaxCarryFrames == 3

CarryFrames ==
    { DclpFrame(1, 7, 1, <<>>),
      DclpFrame(1, 7, 2, <<>>),
      DclpFrame(1, 7, 3, <<>>),
      Frame(DKDN, U16BE(65) \o U16BE(0) \o U16BE(0)) }

NextCarry ==
    \/ ServerHello({HelloFrame(1, 6)}) /\ UNCHANGED sup
    \/ ServerSend(CarryFrames, MaxCarryFrames) /\ sup' = [sup EXCEPT !.idle = 0]
    \/ ServerClose /\ UNCHANGED sup
    \/ ConnectDone
    \/ Hello({FALSE}) /\ UNCHANGED sup
    \/ ReadPacket /\ UNCHANGED sup
    \/ Dispatch({FALSE}, {FALSE}) /\ UNCHANGED sup
    \/ Returned
    \/ SleepTick
    \/ Retry
    \/ SilentTick
    \/ Signal
    \/ JoinDone
    \/ Exit

SpecCarry == InitSupervisor /\ [][NextCarry]_vars

----------------------------------------------------------------------------
(* The handshake of SpecSession.                                            *)

\* the first frame the handshake read begins with "Barrier"
HelloNamed == Len(log[1].frame) >= 11 /\ SubSeq(log[1].frame, 5, 11) = Barrier

\* C34: connected() is called only when a hello beginning with "Barrier" has been read
\* and the whole reply written, and it is the first call on the actuator; a hello with
\* "Barrier" is accepted whatever its version; a hello that does not begin with
\* "Barrier" makes start() return ProtocolError(FormatError) with nothing written and
\* neither connected() nor disconnected() called
C34_ConnectedAfterHandshake ==
    /\ pc = "hello" => calls = <<>> /\ tx = <<>>
    /\ calls # <<>> =>
         /\ calls[1] = Call("connected", <<>>)
         /\ \A i \in 2..Len(calls) : calls[i] # Call("connected", <<>>)
         /\ log[1].st = "ok" /\ HelloNamed
         /\ Len(tx) >= Len(HelloReply(device_name))
         /\ Take(tx, Len(HelloReply(device_name))) = HelloReply(device_name)
    /\ log # <<>> /\ HelloNamed /\ Len(log[1].frame) = 15 => log[1].st = "ok" /\ Connected
    /\ log # <<>> /\ Len(log[1].frame) >= 11 /\ ~HelloNamed =>
         /\ pc = "returned" /\ result = "ProtocolError(FormatError)"
         /\ tx = <<>> /\ calls = <<>> /\ Len(log) = 1

\* the hello of a 1.8 server has been answered and the loop has dispatched a packet
C34_Witness ==
    /\ log # <<>> /\ log[1].frame = HelloFrame(1, 8)
    /\ Len(calls) = 2 /\ calls[1] = Call("connected", <<>>) /\ calls[2].op = "set_cursor_position"
    /\ Take(tx, 23) = HelloReply(TEST)

----------------------------------------------------------------------------
(* SpecNames: the handshake of start() for screen names of several lengths. *)

MaxName == 3

InitNames ==
    pc = "hello" /\ StartInit(Texts(MaxName) \cup {TEST}, {NoStage})
        /\ ActuatorNew({<<1920, 1080>>}, {FALSE})
        /\ sup = NoSupervisor

NextNames ==
    \/ ServerHello(HelloFrames) /\ UNCHANGED sup
    \/ ServerClose /\ UNCHANGED sup
    \/ Hello(BOOLEAN) /\ UNCHANGED sup
    \/ ReadPacket /\ UNCHANGED sup

SpecNames == InitNames /\ [][NextNames]_vars

\* C35: whatever the screen name, what the handshake writes is one frame: a u32
\* big-endian length equal to the number of bytes after it, then "Barrier", u16 1,
\* u16 6, the u32 length of the name and the name
C35_HelloReplyWellFormed ==
    /\ tx # <<>> =>
         /\ Len(tx) >= 4 /\ FromBE(SubSeq(tx, 1, 4)) = Len(tx) - 4
         /\ SubSeqFrom(tx, 5) = <<66, 97, 114, 114, 105, 101, 114, 0, 1, 0, 6>>
                                  \o U32BE(Len(device_name)) \o device_name
    /\ Connected => tx # <<>>

\* the reply for the empty screen name has been written
C35_Witness ==
    /\ device_name = <<>> /\ calls = <<Call("connected", <<>>)>>
    /\ tx = <<0, 0, 0, 15, 66, 97, 114, 114, 105, 101, 114, 0, 1, 0, 6, 0, 0, 0, 0>>

----------------------------------------------------------------------------
(* The id of a transfer in SpecStage.                                       *)

\* entry i of the log is the read of a well-formed DCLP chunk of the given mark
ChunkRead(i, mark) ==
    /\ log[i].st = "ok" /\ Len(log[i].frame) >= 14
    /\ SubSeq(log[i].frame, 5, 8) = DCLP /\ log[i].frame[14] = mark

----------------------------------------------------------------------------
(* Button slots of SpecSupervisor.                                          *)

\* C37: a key-down or key-up is handled whatever button slot it carries: the call
\* on the actuator returns and the loop goes on to its next read; the session never
\* stops in a fault
C37_AnyButtonAccepted ==
    /\ [](pc # "panic")
    /\ [][pc = "dispatch" /\ packet.tag \in {"KeyDown", "KeyUp"} /\ pc' # "dispatch"
            => pc' = "read" /\ Len(calls') = Len(calls) + 1]_vars

----------------------------------------------------------------------------
(* SpecUnder: the dispatch loop on frames whose declared length is smaller  *)
(* than the tag and the fixed fields of their variant.                      *)

MaxUnderFrames == 3

UnderFrames ==
    { U32BE(4) \o DMMV,
      U32BE(4) \o DKDN,
      U32BE(6) \o DMMV \o U16BE(7),
      U32BE(4) \o DMDN,
      Frame(CALV, <<>>),
      Frame(DMMV, U16BE(1) \o U16BE(2)) }

NextUnder ==
    \/ ServerSend(UnderFrames, MaxUnderFrames) /\ UNCHANGED sup
    \/ ServerClose /\ UNCHANGED sup
    \/ ReadPacket /\ UNCHANGED sup
    \/ Dispatch({FALSE}, {FALSE}) /\ UNCHANGED sup

SpecUnder == InitTrailing /\ [][NextUnder]_vars

\* the reads before the i-th each took exactly one frame
ExactBefore(i) == \A j \in 1..(i - 1) : log[j].frame = sent[j]

\* C38: a read that starts at a frame takes no byte beyond the declared length of that
\* frame, also when the length is smaller than the tag and the fields of the variant,
\* and it ends in an error or a packet, never in a fault of the remaining-byte counter
C38_UnderLengthFrameStaysInFrame ==
    \A i \in 1..Min(Len(log), Len(sent)) :
        ExactBefore(i) => Len(log[i].frame) <= Len(sent[i]) /\ log[i].st # "panic"

----------------------------------------------------------------------------
(* Held keys and button slots in SpecRelease.                               *)

\* some button slot of h holds an id whose mapping is the keyboard usage k
SlotReleases(h, k) ==
    \E b \in Slots : synergy_to_hid(h.server_buttons[b]) = [kind |-> "Key", code |-> k]

\* C39: every non-modifier usage in key1..key6 and every modifier bit that is set is
\* the mapping of the id stored in some server_buttons slot, so that a key-up on that
\* slot releases it; two key-downs on one slot leave no key without a slot
C39_HeldKeysHaveSlot ==
    /\ \A i \in 1..6 :
         hid.keyboard_report.keycode[i] # 0
           => SlotReleases(hid, hid.keyboard_report.keycode[i])
    /\ \A k \in HID_KEY_CONTROL_LEFT..HID_KEY_GUI_RIGHT :
         HasBit(hid.keyboard_report.modifier, ModifierBit(k)) => SlotReleases(hid, k)

----------------------------------------------------------------------------
(* SpecLongHello: a session whose server's hello declares 11 bytes or more. *)

MaxLongFrames == 3

\* a hello frame whose body goes on after the version
LongHello(extra) ==
    U32BE(11 + Len(extra)) \o Barrier \o U16BE(1) \o U16BE(6) \o extra

LongHellos == {LongHello(<<>>), LongHello(<<0>>), LongHello(<<0, 0>>), LongHello(TEST)}

LongFrames ==
    { Frame(CALV, <<>>),
      Frame(DMMV, U16BE(1) \o U16BE(2)),
      Frame(DKDN, U16BE(65) \o U16BE(0) \o U16BE(0)) }

NextLongHello ==
    \/ ServerHello(LongHellos) /\ UNCHANGED sup
    \/ ServerSend(LongFrames, MaxLongFrames) /\ UNCHANGED sup
    \/ ServerClose /\ UNCHANGED sup
    \/ Hello({FALSE}) /\ UNCHANGED sup
    \/ ReadPacket /\ UNCHANGED sup
    \/ Dispatch({FALSE}, {FALSE}) /\ UNCHANGED sup

SpecLongHello == InitSession /\ [][NextLongHello]_vars

\* C40: the handshake takes the whole hello frame, whatever length of 11 or more it
\* declares, and the first read of the dispatch loop takes the frame the server sent
\* after the hello
C40_HelloFrameConsumed ==
    /\ log # <<>> /\ log[1].st = "ok" => log[1].frame = sent[1]
    /\ Len(log) >= 2 /\ Len(sent) >= 2 /\ log[2].st \notin {"UnexpectedEof"}
         => log[2].frame = sent[2]

====
